---------------------------- MODULE Spec2Model ----------------------------
(***************************************************************************)
(* Model of the two computational services of tempo-influencer:            *)
(*   - services/worklogDistributor.ts  (distributeWorklogs)                *)
(*   - services/hourCalculator.ts      (calculateHours)                    *)
(* and of two handlers of routes/budget-delta.ts: POST /distribute, which  *)
(* fetches the existing worklogs and calls distributeWorklogs, and         *)
(* POST /submit-worklog, which creates one worklog and records the attempt *)
(* in the audit table.                                                     *)
(*                                                                         *)
(* Hours are held in thousandths of an hour (8 h = 8000), so that values   *)
(* that are not multiples of 0.5 h, and values that are not multiples of   *)
(* 0.01 h, exist and the snapping and rounding of the code do something.   *)
(* Number arithmetic is exact (the code's IEEE doubles are read as reals), *)
(* except in the second model of calculateHours, which computes every      *)
(* operation in IEEE 754 double arithmetic.                                *)
(* 32-bit words of the pseudo-random generator are records [hi, lo] of two *)
(* 16-bit halves, so that no intermediate value leaves TLC's integers.     *)
(* Calendar days are integers; day 0 is a Monday.                          *)
(***************************************************************************)
EXTENDS Integers, Sequences, FiniteSets, TLC

(***************************************************************************)
(* Bounds of the model.                                                    *)
(***************************************************************************)
\* distributeWorklogs: the seeds are 0 .. MaxSeed, input.to is at most MaxSpan
\* days after input.from, and the two lists have at most so many elements.
MaxSeed == 1
MaxSpan == 3
MaxExisting == 2
MaxAssignments == 2
\* calculateHours: at most MaxRoles roles of at most MaxMembers members, and a
\* targetRevenue of at most MaxTargetSteps steps of 125 currency units.
MaxRoles == 2
MaxMembers == 2
MaxTargetSteps == 16
\* input.to is up to MaxExtraWeeks whole weeks later where the weeks are chosen.
MaxExtraWeeks == 3

(***************************************************************************)
(* Generic helpers.                                                        *)
(***************************************************************************)
Min(a, b) == IF a <= b THEN a ELSE b
Max(a, b) == IF a >= b THEN a ELSE b
Abs(a) == IF a < 0 THEN -a ELSE a

RECURSIVE SumSeq(_)
SumSeq(sq) == IF sq = << >> THEN 0 ELSE Head(sq) + SumSeq(Tail(sq))

RECURSIVE Pow2(_)
Pow2(k) == IF k = 0 THEN 1 ELSE 2 * Pow2(k - 1)

\* Math.round: the nearest integer, a tie going up (towards +infinity);
\* MathRound(n, d) is Math.round(n / d) for d > 0.
MathRound(n, d) == (2 * n + d) \div (2 * d)

\* Math.ceil(n / d) for d > 0.
MathCeil(n, d) == -((-n) \div d)

(***************************************************************************)
(* 32-bit words: the integer arithmetic of mulberry32.                     *)
(***************************************************************************)
W16 == Pow2(16)

RECURSIVE BitXor(_, _, _)
BitXor(a, b, n) ==
    IF n = 0 THEN 0
    ELSE (((a % 2) + (b % 2)) % 2) + 2 * BitXor(a \div 2, b \div 2, n - 1)

RECURSIVE BitOr(_, _, _)
BitOr(a, b, n) ==
    IF n = 0 THEN 0
    ELSE Max(a % 2, b % 2) + 2 * BitOr(a \div 2, b \div 2, n - 1)

Word(hi, lo) == [hi |-> hi, lo |-> lo]

\* x ^ y
Xor32(x, y) == Word(BitXor(x.hi, y.hi, 16), BitXor(x.lo, y.lo, 16))

\* x | c for a constant c < 65536
OrLow(x, c) == Word(x.hi, BitOr(x.lo, c, 16))

\* x >>> k for 0 < k < 16
Shr32(x, k) ==
    Word(x.hi \div Pow2(k),
         (x.lo \div Pow2(k)) + (x.hi % Pow2(k)) * Pow2(16 - k))

\* (x + y) modulo 2^32
Add32(x, y) ==
    LET lo == x.lo + y.lo
    IN Word((x.hi + y.hi + (lo \div W16)) % W16, lo % W16)

\* The four bytes of a word, least significant first.
Bytes(x) == << x.lo % 256, x.lo \div 256, x.hi % 256, x.hi \div 256 >>

\* Math.imul: the low 32 bits of the product.
Imul(x, y) ==
    LET a == Bytes(x)
        b == Bytes(y)
        c0 == a[1] * b[1]
        c1 == a[1] * b[2] + a[2] * b[1] + (c0 \div 256)
        c2 == a[1] * b[3] + a[2] * b[2] + a[3] * b[1] + (c1 \div 256)
        c3 == a[1] * b[4] + a[2] * b[3] + a[3] * b[2] + a[4] * b[1] + (c2 \div 256)
    IN Word((c2 % 256) + 256 * (c3 % 256), (c0 % 256) + 256 * (c1 % 256))

\* floor(u * m / 2^32) for a word u and 0 <= m < 2^22: the integer part of
\* rand() * m, rand() being u / 4294967296.
FloorMul(u, m) ==
    LET a == Bytes(u)
        c0 == a[1] * m
        c1 == a[2] * m + (c0 \div 256)
        c2 == a[3] * m + (c1 \div 256)
        c3 == a[4] * m + (c2 \div 256)
    IN c3 \div 256

\* floor(u * v / 2^48) for words u, v: the top 16 bits of the 64-bit product,
\* that is floor(rand() * rand() * 65536).
TopMul(u, v) ==
    LET a == Bytes(u)
        b == Bytes(v)
        c0 == a[1] * b[1]
        c1 == a[1] * b[2] + a[2] * b[1] + (c0 \div 256)
        c2 == a[1] * b[3] + a[2] * b[2] + a[3] * b[1] + (c1 \div 256)
        c3 == a[1] * b[4] + a[2] * b[3] + a[3] * b[2] + a[4] * b[1] + (c2 \div 256)
        c4 == a[2] * b[4] + a[3] * b[3] + a[4] * b[2] + (c3 \div 256)
        c5 == a[3] * b[4] + a[4] * b[3] + (c4 \div 256)
        c6 == a[4] * b[4] + (c5 \div 256)
    IN c6

\* let s = seed >>> 0, for a seed that is a small natural number.
SeedState(seed) == Word(seed \div W16, seed % W16)

\* One call of the closure returned by mulberry32 (lines 34-40), s1 being the
\* state after s += 0x6d2b79f5:
\*   t = Math.imul(t ^ (t >>> 15), t | 1)
Mix1(s1) == Imul(Xor32(s1, Shr32(s1, 15)), OrLow(s1, 1))
\*   t ^= t + Math.imul(t ^ (t >>> 7), t | 61)
Mix2(t) == Xor32(t, Add32(t, Imul(Xor32(t, Shr32(t, 7)), OrLow(t, 61))))
\*   (t ^ (t >>> 14)) >>> 0
Mix3(t) == Xor32(t, Shr32(t, 14))

\* The new state and the word u that the call returns as u / 4294967296.
Drawn(s1) == [state |-> s1, value |-> Mix3(Mix2(Mix1(s1)))]

mulberry32(s) == Drawn(Add32(s, Word(27947, 31221)))

(***************************************************************************)
(* Calendar (date-fns): a day is an integer, day 0 a Monday.               *)
(***************************************************************************)
\* getDay: 0 = Sunday, 1 = Monday, ..., 6 = Saturday
getDay(d) == (d + 1) % 7

\* The Monday of the week of d.
getWeekKey(d) ==
    LET dow == getDay(d)
        offset == IF dow = 0 THEN -6 ELSE 1 - dow
    IN d + offset

\* eachDayOfInterval({start, end}), for start <= end
eachDayOfInterval(start, end) == [k \in 1 .. (end - start + 1) |-> start + k - 1]

\* Variant of WorkingDaysOf that excludes Sunday only.
WorkingDaysWithSaturday(f, t) ==
    LET IsWorkingDay(d) == getDay(d) # 0
    IN SelectSeq(eachDayOfInterval(f, t), IsWorkingDay)

\* The Monday-to-Friday days of [f, t], in calendar order (lines 70-78).
WorkingDaysOf(f, t) ==
    LET IsWorkingDay(d) == getDay(d) # 0 /\ getDay(d) # 6
    IN SelectSeq(eachDayOfInterval(f, t), IsWorkingDay)

(***************************************************************************)
(* Hours.                                                                  *)
(***************************************************************************)
\* The default capacity of a day, 8 h.
DayCapacity == 8000
\* 1.0 h: the least capacity of a good day and the least wish for a day.
OneHour == 1000
\* 0.5 h
HalfHour == 500
\* Math.min(goodWeeks.length, 3)
WeekLimit == 3

\* snapToHalf(value) = Math.round(value / 0.5) * 0.5
snapToHalf(value) == MathRound(value, HalfHour) * HalfHour

\* Math.round(remaining * 100) / 100
RoundCents(value) == MathRound(value, 10) * 10

\* wl.timeSpentSeconds / 3600 (the model's seconds are multiples of 18)
HoursOfSeconds(sec) == (sec * 5) \div 18

(***************************************************************************)
(* fisherYatesShuffle(arr, rand): the shuffled array and the state of the  *)
(* generator after the arr.length - 1 draws.                               *)
(***************************************************************************)
Swap(arr, p, q) == [arr EXCEPT ![p] = arr[q], ![q] = arr[p]]

RECURSIVE ShuffleFrom(_, _, _)
ShuffleFrom(arr, k, st) ==
    IF k <= 1 THEN [arr |-> arr, state |-> st]
    ELSE \* j = Math.floor(rand() * (i + 1)); [a[i], a[j]] = [a[j], a[i]]
         CHOOSE res \in {ShuffleFrom(Swap(arr, k, FloorMul(r.value, k) + 1), k - 1, r.state) :
                            r \in {mulberry32(st)}} : TRUE

fisherYatesShuffle(arr, st) == ShuffleFrom(arr, Len(arr), st)

(***************************************************************************)
(* distributeWorklogs: the inputs of a call and the state of its run.      *)
(***************************************************************************)
VARIABLES
    assignments,        \* input.assignments: [accountId, issueId, totalHours]
    from,               \* input.from
    to,                 \* input.to
    existingWorklogs,   \* input.existingWorklogs: [accountId, startDate, timeSpentSeconds]
    seed,               \* input.seed
    pc,                 \* the place of the run in distributeWorklogs
    wl,                 \* index of the next existing worklog to read
    capacityMap,        \* <<accountId, date>> -> remaining hours, where set
    schedule,           \* the entries pushed so far
    rng,                \* the state s of the generator rand
    a,                  \* index of the assignment in progress
    remaining,          \* hours of that assignment not placed yet
    goodDays,           \* its days of capacity >= 1 h, as partitioned at its start
    tinyDays,           \* its days of capacity in (0, 1 h)
    pickedWeeks,        \* the weeks chosen for it
    days,               \* the days the current loop runs over
    i,                  \* index of the next day of that loop
    calls,              \* number of calls started with these inputs
    firstSchedule       \* the schedule the first of them returned

(***************************************************************************)
(* calculateHours: the input of a call and the state of its run.  Money is *)
(* held in thousandths of the currency unit, so that hours (thousandths of *)
(* an hour) times a rate (currency units per hour) is money.               *)
(***************************************************************************)
VARIABLES
    targetRevenue,      \* input.targetRevenue
    currentRevenue,     \* input.currentRevenue
    roles,              \* input.roles: [roleId, billingRate, memberCount]
    hc,                 \* the place of the run in calculateHours
    roleOutputs,        \* the RoleOutput records
    achievedDelta,      \* the sum of their revenueContribution
    roundedDelta,       \* achievedDelta as first computed, before the loop
    adjustments,        \* number of adjustments the loop has applied
    result              \* the value returned

(***************************************************************************)
(* POST /distribute (routes/budget-delta.ts): the state of one request.    *)
(***************************************************************************)
VARIABLES
    rpc,                \* the place of the request in the handler
    configured,         \* whether getTempoClient() returns a client
    logged,             \* the worklogs of the assigned issues that Tempo holds
    fetchFailed,        \* whether tempoClient.getWorklogs has thrown
    response            \* the response sent: its status and body

(***************************************************************************)
(* POST /submit-worklog (routes/budget-delta.ts): the state of one         *)
(* request, with configured and response as above.                         *)
(***************************************************************************)
VARIABLES
    spc,                \* the place of the request in the handler
    body,               \* the parsed body: [accountId, issueId, startDate, hours]
    jiraConfigured,     \* whether getJiraClient() returns a client
    tempoOutcome,       \* how tempoClient.createWorklog ended, "none" if not called
    jiraOutcome,        \* how jiraClient.createWorklog ended, "none" if not called
    audit               \* the rows inserted into worklog_audit

submitVars == << spc, body, jiraConfigured, tempoOutcome, jiraOutcome, audit >>
routeVars == << rpc, configured, logged, fetchFailed, response, submitVars >>
inputVars == << assignments, from, to, existingWorklogs, seed >>
runVars == << pc, wl, capacityMap, schedule, rng, a, remaining, goodDays,
              tinyDays, pickedWeeks, days, i >>
distVars == << inputVars, runVars, calls, firstSchedule >>
calcVars == << targetRevenue, currentRevenue, roles, hc, roleOutputs, achievedDelta,
               roundedDelta, adjustments, result >>
vars == << distVars, calcVars, routeVars >>

Accounts == {"A", "B"}
\* The accounts that have logged hours before the call.
LoggedAccounts == {"A"}
\* input.from is a Friday or a Saturday; input.to is at most MaxSpan days later.
FromDays == {4, 5}
\* timeSpentSeconds of an existing worklog: 4 h, 7.5 h, 7.75 h
ExistingSeconds == {14400, 27000, 27900}
\* totalHours of the first assignment: -1 h, 0, 2.204 h, 5 h, 9 h
TotalHourValues == {0 - 1000, 0, 2204, 5000, 9000}
\* totalHours of a later assignment: 9 h
LaterHourValues == {9000}

SeqsUpTo(S, n) == UNION {[1 .. k -> S] : k \in 0 .. n}

\* The existing worklogs are dated on input.to.
ExistingChoices(f, t) ==
    [accountId : LoggedAccounts, startDate : {t}, timeSpentSeconds : ExistingSeconds]

\* The lists of existing worklogs, by ascending duration: they all fall on one
\* cell of the capacity map, which their order does not change.
ExistingLists(f, t) ==
    {ws \in SeqsUpTo(ExistingChoices(f, t), MaxExisting) :
        \A k \in 1 .. (Len(ws) - 1) :
            ws[k].timeSpentSeconds <= ws[k + 1].timeSpentSeconds}

\* The k-th assignment is for issue 100 + k; the first one is for account A.
AssignmentLists ==
    {as \in SeqsUpTo([accountId : Accounts, issueId : 101 .. (100 + MaxAssignments),
                      totalHours : TotalHourValues], MaxAssignments) :
        \A k \in 1 .. Len(as) :
            /\ as[k].issueId = 100 + k
            /\ k = 1 => as[k].accountId = "A"
            /\ k > 1 => as[k].totalHours \in LaterHourValues}

workingDays == WorkingDaysOf(from, to)

\* capacityMap[accountId][date] ?? 8
Cap(accountId, date) ==
    IF << accountId, date >> \in DOMAIN capacityMap
    THEN capacityMap[<< accountId, date >>]
    ELSE DayCapacity

\* Variant of SetCap: the value is stored for the date under every account
\* that has an entry.
SetCapOfDay(accountId, date, value) ==
    [k \in (DOMAIN capacityMap) \cup {<< accountId, date >>} |->
        IF k[2] = date THEN value ELSE capacityMap[k]]

\* capacityMap[accountId][date] = value
SetCap(accountId, date, value) ==
    [k \in (DOMAIN capacityMap) \cup {<< accountId, date >>} |->
        IF k = << accountId, date >> THEN value ELSE capacityMap[k]]

NoCapacity == [k \in {} |-> 0]

Entry(accountId, issueId, date, hours, overflow) ==
    [accountId |-> accountId, issueId |-> issueId, date |-> date,
     hours |-> hours, overflow |-> overflow]

\* undefined, as a day: workingDays[0] of an empty array
NoDay == 0 - 1

\* Variant of FirstWorkingDay: the last working day of the range.
LastWorkingDay == IF Len(workingDays) > 0 THEN workingDays[Len(workingDays)] ELSE NoDay

\* workingDays[0]
FirstWorkingDay == IF Len(workingDays) > 0 THEN workingDays[1] ELSE NoDay

\* Variant of PushOverflow: the entry is pushed whatever targetDay is.
PushUnguarded(sch, accountId, issueId, targetDay, hours) ==
    Append(sch, Entry(accountId, issueId, targetDay, hours, TRUE))

\* Variant of PushOverflow: the overflow entry is not pushed.
DropOverflow(sch, accountId, issueId, targetDay, hours) == sch

\* if (targetDay) { schedule.push({ ..., date: targetDay, hours, overflow: true }) }
PushOverflow(sch, accountId, issueId, targetDay, hours) ==
    IF targetDay # NoDay
    THEN Append(sch, Entry(accountId, issueId, targetDay, hours, TRUE))
    ELSE sch

\* The state of a call before its first statement.
StartOfCall ==
    /\ pc = "build"
    /\ wl = 1
    /\ capacityMap = NoCapacity
    /\ schedule = << >>
    /\ rng = SeedState(0)
    /\ a = 1
    /\ remaining = 0
    /\ goodDays = << >>
    /\ tinyDays = << >>
    /\ pickedWeeks = {}
    /\ days = << >>
    /\ i = 1

\* No response yet.
NoResponse == [status |-> 0]

\* No request to POST /submit-worklog.
NoSubmission ==
    /\ spc = "idle"
    /\ body = << >>
    /\ jiraConfigured = FALSE
    /\ tempoOutcome = "none"
    /\ jiraOutcome = "none"
    /\ audit = << >>

\* No request to either route.
NoRequest ==
    /\ NoSubmission
    /\ rpc = "idle"
    /\ configured = TRUE
    /\ logged = << >>
    /\ fetchFailed = FALSE
    /\ response = NoResponse

\* No call of calculateHours.
NoCalculation ==
    /\ targetRevenue = 0
    /\ currentRevenue = 0
    /\ roles = << >>
    /\ hc = "idle"
    /\ roleOutputs = << >>
    /\ achievedDelta = 0
    /\ roundedDelta = 0
    /\ adjustments = 0
    /\ result = << >>

Init ==
    /\ NoCalculation
    /\ NoRequest
    /\ seed \in 0 .. MaxSeed
    /\ from \in FromDays
    /\ to \in from .. (from + MaxSpan)
    /\ existingWorklogs \in ExistingLists(from, to)
    /\ assignments \in AssignmentLists
    /\ StartOfCall
    /\ calls = 1
    /\ firstSchedule = << >>

(***************************************************************************)
(* 2. Build the capacity map: one existing worklog per step (lines 83-91). *)
(***************************************************************************)
\* Variant of Clamped: the capacity is kept as computed.
Unclamped(left) == left

\* if (capacityMap[accountId][date] < 0) capacityMap[accountId][date] = 0
Clamped(left) == IF left < 0 THEN 0 ELSE left

BuildCapacity ==
    /\ pc = "build"
    /\ wl <= Len(existingWorklogs)
    /\ LET w == existingWorklogs[wl]
           hours == HoursOfSeconds(w.timeSpentSeconds)
           left == Cap(w.accountId, w.startDate) - hours
       IN capacityMap' = SetCap(w.accountId, w.startDate, Clamped(left))
    /\ wl' = wl + 1
    /\ UNCHANGED << routeVars, inputVars, pc, schedule, rng, a, remaining, goodDays, tinyDays,
                    pickedWeeks, days, i, calls, firstSchedule, calcVars >>

\* Variant of NewGenerator: the generator of the module, never seeded again.
CarriedGenerator(sd) == rng

\* const rand = mulberry32(seed), and the loop over the assignments begins.
NewGenerator(sd) == SeedState(sd)

StartAssignments ==
    /\ pc = "build"
    /\ wl > Len(existingWorklogs)
    /\ rng' = NewGenerator(seed)
    /\ a' = 1
    /\ pc' = "assign"
    /\ UNCHANGED << routeVars, inputVars, wl, capacityMap, schedule, remaining, goodDays, tinyDays,
                    pickedWeeks, days, i, calls, firstSchedule, calcVars >>

(***************************************************************************)
(* 3. The loop over the assignments (lines 97-228).                        *)
(***************************************************************************)
Assignment == assignments[a]

\* goodDays and tinyDays of an account, from the capacity map as it is now.
GoodDaysOf(accountId) ==
    LET IsGood(d) == Cap(accountId, d) >= OneHour
    IN SelectSeq(workingDays, IsGood)

TinyDaysOf(accountId) ==
    LET IsTiny(d) == Cap(accountId, d) > 0 /\ Cap(accountId, d) < OneHour
    IN SelectSeq(workingDays, IsTiny)

\* The end of the body of the loop: on to the next assignment.
NextAssignment ==
    /\ a' = a + 1
    /\ pc' = "assign"

\* Variant of SkipAssignment: a row of totalHours hours is pushed before the
\* loop continues.
SkipWithRow ==
    /\ pc = "assign"
    /\ a <= Len(assignments)
    /\ Assignment.totalHours <= 0
    /\ schedule' = Append(schedule, Entry(Assignment.accountId, Assignment.issueId,
                                          FirstWorkingDay, Assignment.totalHours, FALSE))
    /\ NextAssignment
    /\ UNCHANGED << routeVars, inputVars, wl, capacityMap, rng, remaining, goodDays,
                    tinyDays, pickedWeeks, days, i, calls, firstSchedule, calcVars >>

\* if (totalHours <= 0) continue
SkipAssignment ==
    /\ pc = "assign"
    /\ a <= Len(assignments)
    /\ Assignment.totalHours <= 0
    /\ NextAssignment
    /\ UNCHANGED << routeVars, inputVars, wl, capacityMap, schedule, rng, remaining, goodDays,
                    tinyDays, pickedWeeks, days, i, calls, firstSchedule, calcVars >>

\* Lines 114-121: no good day and no tiny day, overflow at once.
OverflowImmediately ==
    /\ pc = "assign"
    /\ a <= Len(assignments)
    /\ Assignment.totalHours > 0
    /\ Len(GoodDaysOf(Assignment.accountId)) = 0
    /\ Len(TinyDaysOf(Assignment.accountId)) = 0
    /\ schedule' = PushOverflow(schedule, Assignment.accountId, Assignment.issueId,
                                FirstWorkingDay, Assignment.totalHours)
    /\ remaining' = Assignment.totalHours
    /\ goodDays' = << >>
    /\ tinyDays' = << >>
    /\ NextAssignment
    /\ UNCHANGED << routeVars, inputVars, wl, capacityMap, rng, pickedWeeks, days, i,
                    calls, firstSchedule, calcVars >>

\* The distinct elements of an ascending sequence, in order.
RECURSIVE Distinct(_)
Distinct(sq) ==
    IF Len(sq) <= 1 THEN sq
    ELSE IF sq[1] = sq[2] THEN Distinct(Tail(sq))
         ELSE << sq[1] >> \o Distinct(Tail(sq))

RECURSIVE SumCap(_, _)
SumCap(accountId, ds) ==
    IF ds = << >> THEN 0 ELSE Cap(accountId, Head(ds)) + SumCap(accountId, Tail(ds))

RECURSIVE MaxOf(_)
MaxOf(sq) == IF Len(sq) = 1 THEN sq[1] ELSE Max(sq[1], MaxOf(Tail(sq)))

\* goodWeeks: the sorted keys of weekMap
GoodWeeksOf(gd) == Distinct([k \in 1 .. Len(gd) |-> getWeekKey(gd[k])])

\* goodCapByWeek[wk]
GoodCapOfWeek(accountId, gd, wk) ==
    LET InWeek(d) == getWeekKey(d) = wk
    IN SumCap(accountId, SelectSeq(gd, InWeek))

\* Math.max(1, Math.ceil(totalHours / maxWeekCap))
MinWeeks(totalHours, maxWeekCap) == Max(1, MathCeil(totalHours, maxWeekCap))

\* Math.min(goodWeeks.length, 3)
MaxWeeks(goodWeeks) == Min(Len(goodWeeks), WeekLimit)

\* Math.round(minWeeks + t * (top - minWeeks)) with t = rand() * rand(), u1 and
\* u2 the words of the two draws.  top - minWeeks is at most 2, so the rounding
\* is decided by the top 16 bits of u1 * u2.
RoundedWeeks(minWeeks, top, u1, u2) ==
    minWeeks + ((2 * (top - minWeeks) * TopMul(u1, u2) + W16) \div (2 * W16))

\* numTargetWeeks (lines 142-145)
NumTargetWeeks(minWeeks, maxWeeks, u1, u2) ==
    LET top == Max(minWeeks, maxWeeks)
    IN Max(minWeeks, Min(top, RoundedWeeks(minWeeks, top, u1, u2)))

\* Variant of PickedWeeksOf: every good week is taken.
AllShuffledWeeks(shuffledWeeks, numTargetWeeks) ==
    {shuffledWeeks[k] : k \in 1 .. Len(shuffledWeeks)}

\* shuffledWeeks.slice(0, numTargetWeeks), as a set
PickedWeeksOf(shuffledWeeks, numTargetWeeks) ==
    {shuffledWeeks[k] : k \in 1 .. Min(numTargetWeeks, Len(shuffledWeeks))}

\* Variant of PickedDaysOf: the days of the picked weeks, the latest first.
PickedDaysLatestFirst(gd, weeks) ==
    LET IsPicked(d) == getWeekKey(d) \in weeks
        picked == SelectSeq(gd, IsPicked)
    IN [k \in 1 .. Len(picked) |-> picked[Len(picked) + 1 - k]]

\* goodDays.filter((d) => pickedWeeks.has(getWeekKey(d))).sort()
PickedDaysOf(gd, weeks) ==
    LET IsPicked(d) == getWeekKey(d) \in weeks
    IN SelectSeq(gd, IsPicked)

\* Steps 1-4 (lines 105-150) when there is a good day: partition the days,
\* choose the weeks, and enter the loop of step 5.
SelectWeeks ==
    /\ pc = "assign"
    /\ a <= Len(assignments)
    /\ Assignment.totalHours > 0
    /\ Len(GoodDaysOf(Assignment.accountId)) > 0
    /\ \E gd \in {GoodDaysOf(Assignment.accountId)} :
       \E goodWeeks \in {GoodWeeksOf(gd)} :
       \E r1 \in {mulberry32(rng)} :                 \* t = rand() * rand()
       \E r2 \in {mulberry32(r1.state)} :
       \E sh \in {fisherYatesShuffle(goodWeeks, r2.state)} :
          LET acc == Assignment.accountId
              maxWeekCap == MaxOf([k \in 1 .. Len(goodWeeks) |->
                                      GoodCapOfWeek(acc, gd, goodWeeks[k])])
              minWeeks == MinWeeks(Assignment.totalHours, maxWeekCap)
              numTargetWeeks == NumTargetWeeks(minWeeks, MaxWeeks(goodWeeks),
                                               r1.value, r2.value)
          IN \E weeks \in {PickedWeeksOf(sh.arr, numTargetWeeks)} :
                /\ goodDays' = gd
                /\ tinyDays' = TinyDaysOf(acc)
                /\ pickedWeeks' = weeks
                /\ days' = PickedDaysOf(gd, weeks)
                /\ rng' = sh.state
    /\ remaining' = Assignment.totalHours
    /\ i' = 1
    /\ pc' = "step5"
    /\ UNCHANGED << routeVars, inputVars, wl, capacityMap, schedule, a, calls, firstSchedule, calcVars >>

\* The loops of steps 5, 6 and 7 are left when the days are used up or by
\* "if (remaining <= 0) break".
LoopOver(p) == pc = p /\ i <= Len(days) /\ remaining > 0
LoopLeft(p) == pc = p /\ (i > Len(days) \/ remaining <= 0)

\* The body of a loop after toLog is known (lines 170-175, 189-194, 209-214):
\* nothing for toLog <= 0, else push the entry and take the hours off.
Commit(toLog) ==
    LET acc == Assignment.accountId
        date == days[i]
    IN IF toLog <= 0
       THEN UNCHANGED << schedule, capacityMap, remaining >>
       ELSE /\ schedule' = Append(schedule,
                                  Entry(acc, Assignment.issueId, date, toLog, FALSE))
            /\ capacityMap' = SetCap(acc, date, Cap(acc, date) - toLog)
            /\ remaining' = RoundCents(remaining - toLog)

\* Variant of TakeWhatIsLeft: the capacity of the day is taken whatever remains.
TakeCapacity(currentCap, rem) == snapToHalf(currentCap)

\* snapToHalf(Math.min(currentCap, remaining))
TakeWhatIsLeft(currentCap, rem) == snapToHalf(Min(currentCap, rem))

\* snapToHalf(remaining * fraction) with fraction = 0.2 + rand() * 0.6 and u
\* the word of the draw: Math.round(rem * (1 + 3u/2^32) / 5 / 0.5) * 0.5.
SnappedShare(rem, u) ==
    ((rem + (5 * HalfHour) \div 2 + FloorMul(u, 3 * rem)) \div (5 * HalfHour)) * HalfHour

\* Variant of TakeShare: the share of the remaining hours, whatever the
\* capacity of the day.
TakeShareUncapped(currentCap, rem, u) == Max(snapToHalf(OneHour), SnappedShare(rem, u))

\* snapToHalf(Math.min(currentCap, Math.max(1.0, remaining * fraction))):
\* snapToHalf is monotone, so it is taken of each operand.
TakeShare(currentCap, rem, u) ==
    Min(snapToHalf(currentCap), Max(snapToHalf(OneHour), SnappedShare(rem, u)))

\* Step 5 (lines 153-176): one day of the picked weeks.
PlacePicked ==
    /\ LoopOver("step5")
    /\ LET currentCap == Cap(Assignment.accountId, days[i])
       IN IF currentCap <= 0
          THEN UNCHANGED << schedule, capacityMap, remaining, rng >>
          ELSE IF i = Len(days) \/ remaining <= OneHour
               THEN /\ Commit(TakeWhatIsLeft(currentCap, remaining))
                    /\ rng' = rng
               ELSE \E r \in {mulberry32(rng)} :      \* fraction = 0.2 + rand() * 0.6
                       /\ Commit(TakeShare(currentCap, remaining, r.value))
                       /\ rng' = r.state
    /\ i' = i + 1
    /\ UNCHANGED << routeVars, inputVars, pc, wl, a, goodDays, tinyDays, pickedWeeks, days,
                    calls, firstSchedule, calcVars >>

\* Step 6 (lines 179-181): hours remain, sweep the good days of the other weeks.
ExpandWeeks ==
    /\ LoopLeft("step5")
    /\ remaining > 0
    /\ LET IsExtra(d) == getWeekKey(d) \notin pickedWeeks
       IN \E sh \in {fisherYatesShuffle(SelectSeq(goodDays, IsExtra), rng)} :
             /\ days' = sh.arr
             /\ rng' = sh.state
    /\ i' = 1
    /\ pc' = "step6"
    /\ UNCHANGED << routeVars, inputVars, wl, capacityMap, schedule, a, remaining, goodDays,
                    tinyDays, pickedWeeks, calls, firstSchedule, calcVars >>

\* The body of the loops of steps 6 and 7 (lines 182-195 and 202-215).
Sweep ==
    /\ LET currentCap == Cap(Assignment.accountId, days[i])
       IN IF currentCap <= 0
          THEN UNCHANGED << schedule, capacityMap, remaining >>
          ELSE Commit(TakeWhatIsLeft(currentCap, remaining))
    /\ i' = i + 1

PlaceExtra ==
    /\ LoopOver("step6")
    /\ Sweep
    /\ UNCHANGED << routeVars, inputVars, pc, wl, rng, a, goodDays, tinyDays, pickedWeeks, days,
                    calls, firstSchedule, calcVars >>

\* Step 7 (lines 200-201): hours remain, sweep the tiny days.  It is reached
\* after step 6, or from line 123 when there is no good day.
TinyFallback ==
    /\ \/ LoopLeft("step6") /\ UNCHANGED << remaining, goodDays, tinyDays >>
       \/ /\ pc = "assign"
          /\ a <= Len(assignments)
          /\ Assignment.totalHours > 0
          /\ Len(GoodDaysOf(Assignment.accountId)) = 0
          /\ Len(TinyDaysOf(Assignment.accountId)) > 0
          /\ remaining' = Assignment.totalHours
          /\ goodDays' = << >>
          /\ tinyDays' = TinyDaysOf(Assignment.accountId)
    /\ remaining' > 0
    /\ \E sh \in {fisherYatesShuffle(tinyDays', rng)} :
          /\ days' = sh.arr
          /\ rng' = sh.state
    /\ i' = 1
    /\ pc' = "step7"
    /\ UNCHANGED << routeVars, inputVars, wl, capacityMap, schedule, a, pickedWeeks,
                    calls, firstSchedule, calcVars >>

PlaceTiny ==
    /\ LoopOver("step7")
    /\ Sweep
    /\ UNCHANGED << routeVars, inputVars, pc, wl, rng, a, goodDays, tinyDays, pickedWeeks, days,
                    calls, firstSchedule, calcVars >>

\* Variant of OverflowTarget: the last working day, whatever its capacity.
OverflowOnLastDay(accountId, shuffledAll) == LastWorkingDay

\* overflowDays[0] ?? workingDays[0]
OverflowTarget(accountId, shuffledAll) ==
    LET IsOpen(d) == Cap(accountId, d) >= 0
        overflowDays == SelectSeq(shuffledAll, IsOpen)
    IN IF Len(overflowDays) > 0 THEN overflowDays[1] ELSE FirstWorkingDay

\* Step 8 (lines 219-227): hours still remain, one overflow entry.
Overflow ==
    /\ LoopLeft("step7")
    /\ remaining > 0
    /\ \E sh \in {fisherYatesShuffle(workingDays, rng)} :
          /\ rng' = sh.state
          /\ schedule' = PushOverflow(schedule, Assignment.accountId, Assignment.issueId,
                                      OverflowTarget(Assignment.accountId, sh.arr),
                                      remaining)
    /\ NextAssignment
    /\ UNCHANGED << routeVars, inputVars, wl, capacityMap, remaining, goodDays, tinyDays,
                    pickedWeeks, days, i, calls, firstSchedule, calcVars >>

\* Nothing remains: the guards "if (remaining > 0)" of the later steps fail.
AssignmentPlaced ==
    /\ LoopLeft("step5") \/ LoopLeft("step6") \/ LoopLeft("step7")
    /\ remaining <= 0
    /\ NextAssignment
    /\ UNCHANGED << routeVars, inputVars, wl, capacityMap, schedule, rng, remaining, goodDays,
                    tinyDays, pickedWeeks, days, i, calls, firstSchedule, calcVars >>

\* return { schedule, worklogBodies }
Return ==
    /\ pc = "assign"
    /\ a > Len(assignments)
    /\ pc' = "done"
    /\ firstSchedule' = IF calls = 1 THEN schedule ELSE firstSchedule
    /\ UNCHANGED << routeVars, inputVars, wl, capacityMap, schedule, rng, a, remaining, goodDays,
                    tinyDays, pickedWeeks, days, i, calls, calcVars >>

\* A second call of distributeWorklogs with the same input: every local of
\* the function is new (lines 81, 93, 94).
CallAgain ==
    /\ pc = "done"
    /\ calls = 1
    /\ calls' = 2
    /\ pc' = "build"
    /\ wl' = 1
    /\ capacityMap' = NoCapacity
    /\ schedule' = << >>
    /\ a' = 1
    /\ remaining' = 0
    /\ goodDays' = << >>
    /\ tinyDays' = << >>
    /\ pickedWeeks' = {}
    /\ days' = << >>
    /\ i' = 1
    /\ UNCHANGED << routeVars, inputVars, rng, firstSchedule, calcVars >>

Distribute ==
    \/ BuildCapacity
    \/ StartAssignments
    \/ SkipAssignment
    \/ OverflowImmediately
    \/ SelectWeeks
    \/ PlacePicked
    \/ ExpandWeeks
    \/ PlaceExtra
    \/ TinyFallback
    \/ PlaceTiny
    \/ Overflow
    \/ AssignmentPlaced
    \/ Return

Next == Distribute

\* timeSpentSeconds of an existing worklog, where only the capacity map is
\* built: 4 h, 7.75 h, 9 h
BuildSeconds == {14400, 27900, 32400}

\* Existing worklogs of both accounts on the first and the last day of the
\* range, in any order.
BuildChoices(f, t) ==
    [accountId : Accounts, startDate : {f, t}, timeSpentSeconds : BuildSeconds]

InitBuild ==
    /\ NoCalculation
    /\ NoRequest
    /\ seed = 0
    /\ from \in FromDays
    /\ to \in from .. (from + MaxSpan)
    /\ existingWorklogs \in SeqsUpTo(BuildChoices(from, to), MaxExisting)
    /\ assignments = << [accountId |-> "A", issueId |-> 101, totalHours |-> 5000] >>
    /\ StartOfCall
    /\ calls = 1
    /\ firstSchedule = << >>

\* Step 2 of distributeWorklogs, up to the head of the loop over the assignments.
NextBuild == BuildCapacity \/ StartAssignments

SpecBuild == InitBuild /\ [][NextBuild]_vars

\* totalHours where the weeks are chosen: 5 h, 41 h, 81 h, 121 h
WeekHourValues == {5000, 41000, 81000, 121000}

\* A range of up to MaxExtraWeeks + 2 calendar weeks and one assignment.
InitWeeks ==
    /\ NoCalculation
    /\ NoRequest
    /\ seed \in 0 .. MaxSeed
    /\ from \in FromDays
    /\ to \in {from + MaxSpan + 7 * k : k \in 0 .. MaxExtraWeeks}
    /\ existingWorklogs \in ExistingLists(from, to)
    /\ assignments \in {<< [accountId |-> "A", issueId |-> 101, totalHours |-> h] >> :
                           h \in WeekHourValues}
    /\ StartOfCall
    /\ calls = 1
    /\ firstSchedule = << >>

\* Steps 1-4 of the first assignment.
NextWeeks == BuildCapacity \/ StartAssignments \/ SelectWeeks

SpecWeeks == InitWeeks /\ [][NextWeeks]_vars

\* totalHours of the first assignment there: 2.3 h, 41 h, and 57 h, for which
\* every fallback is needed
FallbackHourValues == {2300, 41000, 57000}
\* totalHours of a later assignment there: 0, 9 h
FallbackLaterValues == {0, 9000}

\* The assignments are for account A; the k-th one is for issue 100 + k.
FallbackLists ==
    {as \in SeqsUpTo([accountId : Accounts, issueId : 101 .. (100 + MaxAssignments),
                      totalHours : FallbackHourValues \cup FallbackLaterValues],
                     MaxAssignments) :
        /\ Len(as) >= 1
        /\ \A k \in 1 .. Len(as) :
              /\ as[k].issueId = 100 + k
              /\ as[k].accountId = "A"
              /\ k = 1 => as[k].totalHours \in FallbackHourValues
              /\ k > 1 => as[k].totalHours \in FallbackLaterValues}

\* A range that ends in its third calendar week.
InitFallback ==
    /\ NoCalculation
    /\ NoRequest
    /\ seed \in 0 .. MaxSeed
    /\ from \in FromDays
    /\ to \in {from + MaxSpan + 7 + k : k \in 0 .. 1}
    /\ existingWorklogs \in ExistingLists(from, to)
    /\ assignments \in FallbackLists
    /\ StartOfCall
    /\ calls = 1
    /\ firstSchedule = << >>

\* One call of distributeWorklogs with such a range.
SpecFallback == InitFallback /\ [][Next]_vars

\* One call of distributeWorklogs.
Spec == Init /\ [][Next]_vars

NextRepeat == Distribute \/ CallAgain

\* Two calls of distributeWorklogs with the same input.
SpecRepeat == Init /\ [][NextRepeat]_vars

(***************************************************************************)
(* calculateHours (hourCalculator.ts, lines 30-111).                       *)
(***************************************************************************)
BillingRates == {0, 40, 100}
CurrentRevenues == {0, 800 * 1000}
RevenueStep == 125 * 1000

RoleLists ==
    {rs \in SeqsUpTo([roleId : 1 .. MaxRoles, billingRate : BillingRates,
                      memberCount : 0 .. MaxMembers], MaxRoles) :
        \A k \in 1 .. Len(rs) : rs[k].roleId = k}

\* No call of distributeWorklogs.
NoDistribution ==
    /\ assignments = << >>
    /\ from = 0
    /\ to = 0
    /\ existingWorklogs = << >>
    /\ seed = 0
    /\ pc = "idle"
    /\ wl = 1
    /\ capacityMap = NoCapacity
    /\ schedule = << >>
    /\ rng = SeedState(0)
    /\ a = 1
    /\ remaining = 0
    /\ goodDays = << >>
    /\ tinyDays = << >>
    /\ pickedWeeks = {}
    /\ days = << >>
    /\ i = 1
    /\ calls = 0
    /\ firstSchedule = << >>

InitCalc ==
    /\ NoDistribution
    /\ NoRequest
    /\ targetRevenue \in {k * RevenueStep : k \in 0 .. MaxTargetSteps}
    /\ currentRevenue \in CurrentRevenues
    /\ roles \in RoleLists
    /\ hc = "start"
    /\ roleOutputs = << >>
    /\ achievedDelta = 0
    /\ roundedDelta = 0
    /\ adjustments = 0
    /\ result = << >>

deltaRevenue == targetRevenue - currentRevenue

\* roles.reduce((sum, r) => sum + r.billingRate * r.memberCount, 0)
TotalWeight(rs) == SumSeq([k \in 1 .. Len(rs) |-> rs[k].billingRate * rs[k].memberCount])

\* roleOutputs.reduce((sum, r) => sum + r.revenueContribution, 0)
SumContributions(outs) == SumSeq([k \in 1 .. Len(outs) |-> outs[k].revenueContribution])

\* Variant of snapRatioToHalf that snaps to quarters of an hour.
snapRatioToQuarter(n, d) == MathRound(2 * n, d * HalfHour) * (HalfHour \div 2)

\* snapToHalf(n / d) for d > 0 (hourCalculator.ts, lines 26-28)
snapRatioToHalf(n, d) == MathRound(n, d * HalfHour) * HalfHour

Output(role, hoursPerMember, totalHours, revenueContribution) ==
    [roleId |-> role.roleId, billingRate |-> role.billingRate,
     memberCount |-> role.memberCount, hoursPerMember |-> hoursPerMember,
     totalHours |-> totalHours, revenueContribution |-> revenueContribution]

\* Variant of AllocateRole: hoursPerMember is the rounded total of the role.
AllocateRoleTotal(role, totalWeight, delta) ==
    IF totalWeight = 0 \/ role.billingRate = 0
    THEN Output(role, 0, 0, 0)
    ELSE LET roundedTotal == snapRatioToHalf(delta * (role.billingRate * role.memberCount),
                                             totalWeight * role.billingRate)
         IN Output(role, roundedTotal, roundedTotal * role.memberCount,
                   roundedTotal * role.memberCount * role.billingRate)

\* The callback of roles.map (lines 37-68).
\*   roleRevenue   = deltaRevenue * ((billingRate * memberCount) / totalWeight)
\*   rawHoursTotal = roleRevenue / billingRate
AllocateRole(role, totalWeight, delta) ==
    IF totalWeight = 0 \/ role.billingRate = 0
    THEN Output(role, 0, 0, 0)
    ELSE LET rawNum == delta * (role.billingRate * role.memberCount)
             rawDen == totalWeight * role.billingRate
             roundedTotal == snapRatioToHalf(rawNum, rawDen)
             hoursPerMember == IF role.memberCount > 0
                               THEN snapRatioToHalf(roundedTotal, role.memberCount)
                               ELSE 0
         IN Output(role, hoursPerMember, hoursPerMember * role.memberCount,
                   hoursPerMember * role.memberCount * role.billingRate)

\* Lines 31-71.
Allocate ==
    /\ hc = "start"
    /\ \E outs \in {[k \in 1 .. Len(roles) |->
                        AllocateRole(roles[k], TotalWeight(roles), deltaRevenue)]} :
          /\ roleOutputs' = outs
          /\ achievedDelta' = SumContributions(outs)
          /\ roundedDelta' = SumContributions(outs)
    /\ hc' = "reconcile"
    /\ UNCHANGED << routeVars, distVars, targetRevenue, currentRevenue, roles, adjustments, result >>

\* The adjustments tried in one pass of the loop, in order: for each role
\* -0.5 and then +0.5.
Adjustments == << -HalfHour, HalfHour >>

\* Variant of Try: an adjustment that leaves the error as it is is taken too.
TryTies(best, k, adj) ==
    LET role == roleOutputs[k]
        newHours == role.hoursPerMember + adj
        newContrib == newHours * role.memberCount * role.billingRate
        newError == Abs(achievedDelta - role.revenueContribution + newContrib - deltaRevenue)
    IN IF role.billingRate = 0 \/ newHours < 0 THEN best
       ELSE IF newError <= best.error
            THEN [idx |-> k, adj |-> adj, error |-> newError]
            ELSE best

\* Lines 79-91 for role k and adjustment adj: the best so far after the try.
Try(best, k, adj) ==
    LET role == roleOutputs[k]
        newHours == role.hoursPerMember + adj
        newContrib == newHours * role.memberCount * role.billingRate
        newAchieved == achievedDelta - role.revenueContribution + newContrib
        newError == Abs(newAchieved - deltaRevenue)
    IN IF role.billingRate = 0 THEN best
       ELSE IF newHours < 0 THEN best
       ELSE IF newError < best.error
            THEN [idx |-> k, adj |-> adj, error |-> newError]
            ELSE best

\* The tries n, n + 1, ... of a pass; try n is role (n + 1) \div 2 with
\* adjustment Adjustments[2 - n % 2].
RECURSIVE BestFrom(_, _)
BestFrom(n, best) ==
    IF n > 2 * Len(roleOutputs) THEN best
    ELSE BestFrom(n + 1, Try(best, (n + 1) \div 2, Adjustments[2 - (n % 2)]))

\* Variant of BestAdjustment: no adjustment is tried.
NoAdjustment ==
    [idx |-> 0, adj |-> 0, error |-> Abs(achievedDelta - deltaRevenue)]

\* bestIdx (0: none), bestAdj and bestError after the for loop (lines 75-93).
BestAdjustment ==
    BestFrom(1, [idx |-> 0, adj |-> 0, error |-> Abs(achievedDelta - deltaRevenue)])

\* Variant of Adjusted that leaves totalHours as it was.
AdjustedHoursOnly(role, adj) ==
    LET hoursPerMember == role.hoursPerMember + adj
    IN Output(role, hoursPerMember, role.totalHours,
              hoursPerMember * role.memberCount * role.billingRate)

\* role.hoursPerMember += bestAdj and the two fields that follow (lines 96-98).
Adjusted(role, adj) ==
    LET hoursPerMember == role.hoursPerMember + adj
    IN Output(role, hoursPerMember, hoursPerMember * role.memberCount,
              hoursPerMember * role.memberCount * role.billingRate)

\* A pass of the while loop that finds an improving adjustment (lines 94-101).
Adjust ==
    /\ hc = "reconcile"
    /\ \E best \in {BestAdjustment} :
          /\ best.idx >= 1
          /\ \E outs \in {[roleOutputs EXCEPT
                             ![best.idx] = Adjusted(roleOutputs[best.idx], best.adj)]} :
                /\ roleOutputs' = outs
                /\ achievedDelta' = SumContributions(outs)
    /\ adjustments' = adjustments + 1
    /\ UNCHANGED << routeVars, distVars, targetRevenue, currentRevenue, roles, hc, roundedDelta,
                    result >>

\* Variant of ReturnResult: the target is reported as achieved.
ReturnTargetReached ==
    /\ hc = "reconcile"
    /\ BestAdjustment.idx = 0
    /\ result' = [roles |-> roleOutputs,
                  totalDeltaRevenue |-> deltaRevenue,
                  achievedRevenue |-> targetRevenue]
    /\ hc' = "done"
    /\ UNCHANGED << routeVars, distVars, targetRevenue, currentRevenue, roles, roleOutputs,
                    achievedDelta, roundedDelta, adjustments >>

\* The pass that finds none ends the loop, and the result is returned
\* (lines 104-110).
ReturnResult ==
    /\ hc = "reconcile"
    /\ BestAdjustment.idx = 0
    /\ result' = [roles |-> roleOutputs,
                  totalDeltaRevenue |-> achievedDelta,
                  achievedRevenue |-> currentRevenue + achievedDelta]
    /\ hc' = "done"
    /\ UNCHANGED << routeVars, distVars, targetRevenue, currentRevenue, roles, roleOutputs,
                    achievedDelta, roundedDelta, adjustments >>

NextCalc == Allocate \/ Adjust \/ ReturnResult

\* One call of calculateHours.
SpecCalc == InitCalc /\ [][NextCalc]_vars

\* One call of calculateHours that runs on: the function is synchronous, so a
\* statement that can be executed is executed.
SpecCalcFair == InitCalc /\ [][NextCalc]_vars /\ WF_vars(NextCalc)

(***************************************************************************)
(* calculateHours in the arithmetic of the build: every Number is an IEEE  *)
(* 754 double.  A natural number of any size is a sequence of 15-bit limbs *)
(* (least significant first, no leading zero limb), so that no             *)
(* intermediate value leaves TLC's integers.                               *)
(***************************************************************************)
\* The element of a set of one element.  The({F(v) : v \in {x}}) is F(x) with
\* x evaluated once, before F is applied to it.
The(S) == CHOOSE val \in S : TRUE

LimbBits == 15
Limb == Pow2(LimbBits)

LimbAt(x, k) == IF k <= Len(x) THEN x[k] ELSE 0

RECURSIVE BigNorm(_)
BigNorm(x) ==
    The({IF Len(v) > 0 /\ v[Len(v)] = 0 THEN BigNorm(SubSeq(v, 1, Len(v) - 1)) ELSE v :
            v \in {x}})

\* The natural number n < 2^31 as limbs.
RECURSIVE BigOf(_)
BigOf(n) ==
    The({IF v = 0 THEN << >> ELSE << v % Limb >> \o BigOf(v \div Limb) : v \in {n}})

\* The limbs k, k + 1, ... of x + y + carry * 2^(15 (k - 1))
RECURSIVE BigAddFrom(_, _, _, _)
BigAddFrom(x, y, k, carry) ==
    IF k > Len(x) /\ k > Len(y)
    THEN IF carry = 0 THEN << >> ELSE << carry >>
    ELSE The({<< t % Limb >> \o BigAddFrom(x, y, k + 1, t \div Limb) :
                t \in {LimbAt(x, k) + LimbAt(y, k) + carry}})

BigAdd(x, y) == The({BigAddFrom(v, w, 1, 0) : v \in {x}, w \in {y}})

\* x + 1
BigSucc(x) == The({BigAddFrom(v, << >>, 1, 1) : v \in {x}})

\* The limbs k, k + 1, ... of x - y for x >= y
RECURSIVE BigSubFrom(_, _, _, _)
BigSubFrom(x, y, k, borrow) ==
    IF k > Len(x) THEN << >>
    ELSE The({IF t < 0 THEN << t + Limb >> \o BigSubFrom(x, y, k + 1, 1)
                       ELSE << t >> \o BigSubFrom(x, y, k + 1, 0) :
                t \in {x[k] - LimbAt(y, k) - borrow}})

BigSub(x, y) == The({BigNorm(BigSubFrom(v, w, 1, 0)) : v \in {x}, w \in {y}})

\* -1, 0 or 1 as x < y, x = y or x > y, for x and y of Len(x) limbs each,
\* from limb k down
RECURSIVE BigCmpFrom(_, _, _)
BigCmpFrom(x, y, k) ==
    IF k = 0 THEN 0
    ELSE IF x[k] < y[k] THEN 0 - 1
    ELSE IF x[k] > y[k] THEN 1
    ELSE BigCmpFrom(x, y, k - 1)

BigCmp(x, y) ==
    The({IF Len(v) < Len(w) THEN 0 - 1
         ELSE IF Len(v) > Len(w) THEN 1
         ELSE BigCmpFrom(v, w, Len(v)) :
            v \in {x}, w \in {y}})

\* The limbs k, k + 1, ... of x * n + carry * 2^(15 (k - 1)) for n <= 2^15
RECURSIVE BigMulSmallFrom(_, _, _, _)
BigMulSmallFrom(x, n, k, carry) ==
    IF k > Len(x)
    THEN IF carry = 0 THEN << >> ELSE << carry >>
    ELSE The({<< t % Limb >> \o BigMulSmallFrom(x, n, k + 1, t \div Limb) :
                t \in {x[k] * n + carry}})

BigMulSmall(x, n) == The({BigNorm(BigMulSmallFrom(v, w, 1, 0)) : v \in {x}, w \in {n}})

\* x * 2^(15 k)
BigShlLimbs(x, k) == The({IF v = << >> THEN v ELSE [j \in 1 .. k |-> 0] \o v : v \in {x}})

\* x * (the limbs k, k + 1, ... of y) * 2^(15 (k - 1))
RECURSIVE BigMulFrom(_, _, _)
BigMulFrom(x, y, k) ==
    IF k > Len(y) THEN << >>
    ELSE BigAdd(BigShlLimbs(BigMulSmall(x, y[k]), k - 1), BigMulFrom(x, y, k + 1))

BigMul(x, y) == The({BigMulFrom(v, w, 1) : v \in {x}, w \in {y}})

\* x * 2^n
BigShl(x, n) ==
    The({BigShlLimbs(BigMulSmall(v, Pow2(w % LimbBits)), w \div LimbBits) :
            v \in {x}, w \in {n}})

\* The limbs 1 .. k of floor(x / n) for 0 < n <= 2^15, from the top limb
\* down; rem is the remainder of the limbs above k.
RECURSIVE BigDivSmallFrom(_, _, _, _)
BigDivSmallFrom(x, n, k, rem) ==
    IF k = 0 THEN << >>
    ELSE The({BigDivSmallFrom(x, n, k - 1, t % n) \o << t \div n >> :
                t \in {rem * Limb + x[k]}})

\* floor(x / 2^n)
BigShr(x, n) ==
    The({The({BigNorm(BigDivSmallFrom(kept, Pow2(w % LimbBits), Len(kept), 0)) :
                 kept \in {SubSeq(v, w \div LimbBits + 1, Len(v))}}) :
            v \in {x}, w \in {n}})

\* x mod 2^n # 0
BigLowBits(x, n) ==
    The({(\E k \in 1 .. Min(w \div LimbBits, Len(v)) : v[k] # 0)
            \/ LimbAt(v, w \div LimbBits + 1) % Pow2(w % LimbBits) # 0 :
            v \in {x}, w \in {n}})

RECURSIVE BitLength(_)
BitLength(n) == IF n = 0 THEN 0 ELSE 1 + BitLength(n \div 2)

\* The number of bits of x
BigBits(x) ==
    The({IF v = << >> THEN 0 ELSE LimbBits * (Len(v) - 1) + BitLength(v[Len(v)]) :
            v \in {x}})

BigOdd(x) == LimbAt(x, 1) % 2 = 1

\* The bit of weight 2^n of x
BigBit(x, n) ==
    The({(LimbAt(v, w \div LimbBits + 1) \div Pow2(w % LimbBits)) % 2 :
            v \in {x}, w \in {n}})

\* The largest digit d with d * y <= r, for r < 2^15 * y, by bisection:
\* lo * y <= r < hi * y.
RECURSIVE BigDigit(_, _, _, _)
BigDigit(r, y, lo, hi) ==
    IF hi - lo = 1 THEN lo
    ELSE The({IF BigCmp(BigMulSmall(y, mid), r) <= 0
              THEN BigDigit(r, y, mid, hi)
              ELSE BigDigit(r, y, lo, mid) :
                mid \in {(lo + hi) \div 2}})

\* The quotient and the remainder after limb k of x: q and r are those of the
\* limbs above k, r2 is r with limb k, d the digit of the quotient.
BigDivStep(x, y, k, q, r) ==
    The({The({[q |-> << d >> \o q, r |-> BigSub(r2, BigMulSmall(y, d))] :
                 d \in {BigDigit(r2, y, 0, Limb)}}) :
            r2 \in {BigNorm(<< x[k] >> \o r)}})

\* floor(x / y) and whether x mod y # 0, for y # 0, limb by limb from limb k
\* of x down.
RECURSIVE BigDivFrom(_, _, _, _, _)
BigDivFrom(x, y, k, q, r) ==
    IF k = 0 THEN [quot |-> BigNorm(q), inexact |-> r # << >>]
    ELSE The({BigDivFrom(x, y, k - 1, s.q, s.r) : s \in {BigDivStep(x, y, k, q, r)}})

BigDiv(x, y) == The({BigDivFrom(v, w, Len(v), << >>, << >>) : v \in {x}, w \in {y}})

(***************************************************************************)
(* A double is [neg, m, e]: the number (-1)^neg * m * 2^e with m of        *)
(* exactly 53 bits, or zero (m empty).  Every operation is the exact       *)
(* result rounded to the nearest double, a tie going to the even mantissa. *)
(* The exponents of the model stay far from the subnormal and the infinite *)
(* range, which are left out.                                              *)
(***************************************************************************)
MantissaBits == 53

DZero == [neg |-> FALSE, m |-> << >>, e |-> 0]

\* m * 2^e of 53 + d bits, d > 0, rounded: q is m cut to 53 bits, and it goes
\* up if what is cut off is more than half of its last bit, or half of it and
\* q is odd.
RoundCut(neg, m, e, sticky, d, q) ==
    LET up == /\ BigBit(m, d - 1) = 1
              /\ (sticky \/ BigLowBits(m, d - 1) \/ BigOdd(q))
    IN The({IF BigBits(r) > MantissaBits
            THEN [neg |-> neg, m |-> BigShr(r, 1), e |-> e + d + 1]
            ELSE [neg |-> neg, m |-> r, e |-> e + d] :
               r \in {IF up THEN BigSucc(q) ELSE q}})

\* (-1)^neg * m * 2^e of 53 + d bits, and more below the last bit of m if
\* sticky, rounded.
RoundBits(neg, m, e, sticky, d) ==
    IF m = << >> THEN DZero
    ELSE IF d <= 0 THEN [neg |-> neg, m |-> BigShl(m, 0 - d), e |-> e + d]
    ELSE The({RoundCut(neg, m, e, sticky, d, q) : q \in {BigShr(m, d)}})

RoundToDouble(neg, m, e, sticky) ==
    The({RoundBits(neg, v, w, sticky, BigBits(v) - MantissaBits) : v \in {m}, w \in {e}})

\* The integer n, |n| < 2^31, as a double.
DOf(n) == The({RoundToDouble(v < 0, BigOf(Abs(v)), 0, FALSE) : v \in {n}})

\* 0.5
DHalf == RoundToDouble(FALSE, BigOf(1), 0 - 1, FALSE)

DNeg(x) == The({IF v.m = << >> THEN v ELSE [v EXCEPT !.neg = ~v.neg] : v \in {x}})
DAbs(x) == [x EXCEPT !.neg = FALSE]

\* x + y for x, y # 0, with mx and my their mantissas at the exponent e
DAddAt(x, y, e, mx, my) ==
    IF x.neg = y.neg THEN RoundToDouble(x.neg, BigAdd(mx, my), e, FALSE)
    ELSE The({IF c = 0 THEN DZero
              ELSE IF c > 0 THEN RoundToDouble(x.neg, BigSub(mx, my), e, FALSE)
              ELSE RoundToDouble(y.neg, BigSub(my, mx), e, FALSE) :
                 c \in {BigCmp(mx, my)}})

\* x + y for x, y # 0
DAddNonZero(x, y) ==
    The({DAddAt(x, y, Min(x.e, y.e), mx, my) :
            mx \in {BigShl(x.m, x.e - Min(x.e, y.e))},
            my \in {BigShl(y.m, y.e - Min(x.e, y.e))}})

\* x + y
DAdd(x, y) ==
    The({IF v.m = << >> THEN w ELSE IF w.m = << >> THEN v ELSE DAddNonZero(v, w) :
            v \in {x}, w \in {y}})

\* x - y
DSub(x, y) == DAdd(x, DNeg(y))

\* x * y
DMul(x, y) ==
    The({IF v.m = << >> \/ w.m = << >> THEN DZero
         ELSE RoundToDouble(v.neg # w.neg, BigMul(v.m, w.m), v.e + w.e, FALSE) :
            v \in {x}, w \in {y}})

\* x / y for x, y # 0: the quotient of the mantissas to 60 bits or more, and
\* whether a remainder is left.
DivBits == 60

DDivNonZero(x, y) ==
    The({RoundToDouble(x.neg # y.neg, d.quot, x.e - y.e - DivBits, d.inexact) :
            d \in {BigDiv(BigShl(x.m, DivBits), y.m)}})

\* x / y for y # 0
DDiv(x, y) ==
    The({IF v.m = << >> THEN DZero ELSE DDivNonZero(v, w) : v \in {x}, w \in {y}})

\* x < y
DLess(x, y) == The({z.m # << >> /\ z.neg : z \in {DSub(x, y)}})

\* Math.round(x) for x with bits below the units: floor is floor(|x|), half
\* whether the bit of weight 1/2 is set.
DRoundAt(x, floor, half) ==
    IF x.neg
    THEN RoundToDouble(TRUE, IF half /\ BigLowBits(x.m, 0 - x.e - 1)
                             THEN BigSucc(floor) ELSE floor, 0, FALSE)
    ELSE RoundToDouble(FALSE, IF half THEN BigSucc(floor) ELSE floor, 0, FALSE)

\* Math.round(x): the nearest integer, a tie going up (towards +infinity).
DRound(x) ==
    The({IF v.m = << >> \/ v.e >= 0 THEN v
         ELSE DRoundAt(v, BigShr(v.m, 0 - v.e), BigBit(v.m, 0 - v.e - 1) = 1) :
            v \in {x}})

\* snapToHalf(value) (hourCalculator.ts, lines 26-28)
DSnapToHalf(value) == DMul(DRound(DDiv(value, DHalf)), DHalf)

(***************************************************************************)
(* calculateHours over doubles: the same statements as above, every        *)
(* operation rounded as the build rounds it.                               *)
(***************************************************************************)
\* billingRate and memberCount of a role, and the revenues, in whole units
DoubleRates == {7, 10}
DoubleMembers == {2, 3}
\* targetRevenue: 1000, 4e16, 8.7e16
DoubleTargets ==
    {DOf(1000), DMul(DOf(4), DMul(DOf(100000000), DOf(100000000))),
     DMul(DOf(87), DMul(DOf(10000000), DOf(100000000)))}
DoubleCurrents == {DOf(0), DOf(800)}

DoubleRoleLists ==
    {[k \in 1 .. Len(rs) |-> [roleId |-> k, billingRate |-> DOf(rs[k].billingRate),
                              memberCount |-> DOf(rs[k].memberCount)]] :
        rs \in SeqsUpTo([billingRate : DoubleRates, memberCount : DoubleMembers], MaxRoles)}

InitDouble ==
    /\ NoDistribution
    /\ NoRequest
    /\ targetRevenue \in DoubleTargets
    /\ currentRevenue \in DoubleCurrents
    /\ roles \in DoubleRoleLists
    /\ hc = "start"
    /\ roleOutputs = << >>
    /\ achievedDelta = DZero
    /\ roundedDelta = 0
    /\ adjustments = 0
    /\ result = << >>

\* const deltaRevenue = targetRevenue - currentRevenue
DDeltaRevenue == DSub(targetRevenue, currentRevenue)

\* xs.reduce((sum, x) => sum + x, 0): the elements k, k + 1, ... added to sum
RECURSIVE DReduce(_, _, _)
DReduce(xs, k, sum) ==
    IF k > Len(xs) THEN sum
    ELSE The({DReduce(xs, k + 1, next) : next \in {DAdd(sum, xs[k])}})

\* roles.reduce((sum, r) => sum + r.billingRate * r.memberCount, 0)
DTotalWeight(rs) ==
    The({DReduce(weights, 1, DZero) :
            weights \in {[k \in 1 .. Len(rs) |->
                            DMul(rs[k].billingRate, rs[k].memberCount)]}})

\* roleOutputs.reduce((sum, r) => sum + r.revenueContribution, 0)
DSumContributions(outs) ==
    The({DReduce(contributions, 1, DZero) :
            contributions \in {[k \in 1 .. Len(outs) |-> outs[k].revenueContribution]}})

\* hoursPerMember * role.memberCount * role.billingRate
DContribution(role, hoursPerMember) ==
    DMul(DMul(hoursPerMember, role.memberCount), role.billingRate)

\* The callback of roles.map (lines 37-68) where totalWeight and billingRate
\* are not 0.
DAllocatePaying(role, totalWeight, delta) ==
    LET roleRevenue ==
            DMul(delta, DDiv(DMul(role.billingRate, role.memberCount), totalWeight))
        rawHoursTotal == DDiv(roleRevenue, role.billingRate)
        roundedTotal == DSnapToHalf(rawHoursTotal)
    IN The({Output(role, hoursPerMember, DMul(hoursPerMember, role.memberCount),
                   DContribution(role, hoursPerMember)) :
               hoursPerMember \in {IF DLess(DZero, role.memberCount)
                                   THEN DSnapToHalf(DDiv(roundedTotal, role.memberCount))
                                   ELSE DZero}})

\* The callback of roles.map (lines 37-68).
DAllocateRole(role, totalWeight, delta) ==
    IF totalWeight = DZero \/ role.billingRate = DZero
    THEN Output(role, DZero, DZero, DZero)
    ELSE DAllocatePaying(role, totalWeight, delta)

\* Lines 31-71.
DAllocate ==
    /\ hc = "start"
    /\ \E totalWeight \in {DTotalWeight(roles)}, delta \in {DDeltaRevenue} :
       \E outs \in {[k \in 1 .. Len(roles) |->
                        DAllocateRole(roles[k], totalWeight, delta)]} :
          /\ roleOutputs' = outs
          /\ achievedDelta' = DSumContributions(outs)
    /\ hc' = "reconcile"
    /\ UNCHANGED << routeVars, distVars, targetRevenue, currentRevenue, roles, roundedDelta,
                    adjustments, result >>

\* Lines 84-91 of a try: the best so far after it.
DTryHours(best, k, adj, role, newHours) ==
    LET newContrib == DContribution(role, newHours)
        newAchieved == DAdd(DSub(achievedDelta, role.revenueContribution), newContrib)
    IN The({IF DLess(newError, best.error)
            THEN [idx |-> k, adj |-> adj, error |-> newError]
            ELSE best :
               newError \in {DAbs(DSub(newAchieved, DDeltaRevenue))}})

\* Variant of DTry: only the adjustment by -0.5 is tried.
DTryDecrease(best, k, adj) ==
    The({IF role.billingRate = DZero \/ adj > 0 THEN best
         ELSE IF DLess(newHours, DZero) THEN best
         ELSE DTryHours(best, k, adj, role, newHours) :
            role \in {roleOutputs[k]},
            newHours \in {DAdd(roleOutputs[k].hoursPerMember, DMul(DOf(adj), DHalf))}})

\* Lines 79-91 for role k and adjustment adj (in half hours: -1 or 1): the
\* best so far after the try.
DTry(best, k, adj) ==
    The({IF role.billingRate = DZero THEN best
         ELSE IF DLess(newHours, DZero) THEN best
         ELSE DTryHours(best, k, adj, role, newHours) :
            role \in {roleOutputs[k]},
            newHours \in {DAdd(roleOutputs[k].hoursPerMember, DMul(DOf(adj), DHalf))}})

\* The tries n, n + 1, ... of a pass; try n is role (n + 1) \div 2, first with
\* -0.5 and then with 0.5.
RECURSIVE DBestFrom(_, _)
DBestFrom(n, best) ==
    IF n > 2 * Len(roleOutputs) THEN best
    ELSE The({DBestFrom(n + 1, DTry(b, (n + 1) \div 2, adj)) :
                b \in {best}, adj \in {IF n % 2 = 1 THEN 0 - 1 ELSE 1}})

\* bestIdx (0: none), bestAdj and bestError after the for loop (lines 75-93).
DBestAdjustment ==
    DBestFrom(1, [idx |-> 0, adj |-> 0, error |-> DAbs(DSub(achievedDelta, DDeltaRevenue))])

\* role.hoursPerMember += bestAdj and the two fields that follow (lines 96-98).
DAdjusted(role, adj) ==
    The({Output(role, hoursPerMember, DMul(hoursPerMember, role.memberCount),
                DContribution(role, hoursPerMember)) :
            hoursPerMember \in {DAdd(role.hoursPerMember, DMul(DOf(adj), DHalf))}})

\* A pass of the while loop that finds an improving adjustment (lines 94-101).
DAdjust ==
    /\ hc = "reconcile"
    /\ \E best \in {DBestAdjustment} :
          /\ best.idx >= 1
          /\ \E outs \in {[roleOutputs EXCEPT
                             ![best.idx] = DAdjusted(roleOutputs[best.idx], best.adj)]} :
                /\ roleOutputs' = outs
                /\ achievedDelta' = DSumContributions(outs)
    /\ UNCHANGED << routeVars, distVars, targetRevenue, currentRevenue, roles, hc, roundedDelta,
                    adjustments, result >>

\* The pass that finds none ends the loop, and the result is returned
\* (lines 104-110).
DReturnResult ==
    /\ hc = "reconcile"
    /\ DBestAdjustment.idx = 0
    /\ result' = [roles |-> roleOutputs,
                  totalDeltaRevenue |-> achievedDelta,
                  achievedRevenue |-> DAdd(currentRevenue, achievedDelta)]
    /\ hc' = "done"
    /\ UNCHANGED << routeVars, distVars, targetRevenue, currentRevenue, roles, roleOutputs,
                    achievedDelta, roundedDelta, adjustments >>

NextDouble == DAllocate \/ DAdjust \/ DReturnResult

\* One call of calculateHours over doubles that runs on: the function is
\* synchronous, so a statement that can be executed is executed.
SpecDouble == InitDouble /\ [][NextDouble]_vars /\ WF_vars(NextDouble)

\* Inputs with revenues of a few units and rates of tenths: billingRate 0.1
\* and 0.7, targetRevenue 8.525 and 87.45, currentRevenue 0 and 0.1.
TieRates == {DDiv(DOf(1), DOf(10)), DDiv(DOf(7), DOf(10))}
TieMembers == {1, 2}
TieTargets == {DDiv(DOf(8525), DOf(1000)), DDiv(DOf(8745), DOf(100))}
TieCurrents == {DZero, DDiv(DOf(1), DOf(10))}

TieRoleLists ==
    {[k \in 1 .. Len(rs) |-> [roleId |-> k, billingRate |-> rs[k].billingRate,
                              memberCount |-> DOf(rs[k].memberCount)]] :
        rs \in SeqsUpTo([billingRate : TieRates, memberCount : TieMembers], MaxRoles)}

InitTies ==
    /\ NoDistribution
    /\ NoRequest
    /\ targetRevenue \in TieTargets
    /\ currentRevenue \in TieCurrents
    /\ roles \in TieRoleLists
    /\ hc = "start"
    /\ roleOutputs = << >>
    /\ achievedDelta = DZero
    /\ roundedDelta = 0
    /\ adjustments = 0
    /\ result = << >>

\* One call of calculateHours over doubles with such an input.
SpecTies == InitTies /\ [][NextDouble]_vars /\ WF_vars(NextDouble)

(***************************************************************************)
(* POST /distribute, from the test for the Tempo client to the response    *)
(* (budget-delta.ts, lines 119-123 and 241-272).  The body is valid and a  *)
(* project is selected; the assignments are those built at lines 214-239.  *)
(***************************************************************************)
\* perMemberHours = snapToHalf(...), and if (perMemberHours === 0) continue:
\* the totalHours of an assignment built by the route is a multiple of 0.5 h
\* and not 0.
RouteAssignmentLists ==
    {as \in AssignmentLists :
        \A k \in 1 .. Len(as) :
            as[k].totalHours % HalfHour = 0 /\ as[k].totalHours # 0}

InitRoute ==
    /\ NoCalculation
    /\ NoSubmission
    /\ rpc = "start"
    /\ configured \in BOOLEAN
    /\ seed \in 0 .. MaxSeed
    /\ from \in FromDays
    /\ to \in from .. (from + MaxSpan)
    /\ logged \in ExistingLists(from, to)
    /\ assignments \in RouteAssignmentLists
    /\ existingWorklogs = << >>
    /\ fetchFailed = FALSE
    /\ response = NoResponse
    /\ pc = "idle"
    /\ wl = 1
    /\ capacityMap = NoCapacity
    /\ schedule = << >>
    /\ rng = SeedState(0)
    /\ a = 1
    /\ remaining = 0
    /\ goodDays = << >>
    /\ tinyDays = << >>
    /\ pickedWeeks = {}
    /\ days = << >>
    /\ i = 1
    /\ calls = 1
    /\ firstSchedule = << >>

\* if (!tempoClient) { res.status(401).json({ error: ... }); return; }
RejectUnconfigured ==
    /\ rpc = "start"
    /\ ~configured
    /\ response' = [status |-> 401, error |-> "Tempo credentials not configured"]
    /\ rpc' = "responded"
    /\ UNCHANGED << distVars, calcVars, configured, logged, fetchFailed, submitVars >>

\* tempoClient.getWorklogs throws: catch { } leaves existingWorklogs = [] and
\* distributeWorklogs is called (lines 245, 252-256).
FetchFails ==
    /\ rpc = "start"
    /\ configured
    /\ fetchFailed' = TRUE
    /\ existingWorklogs' = << >>
    /\ rpc' = "distribute"
    /\ pc' = "build"
    /\ UNCHANGED << assignments, from, to, seed, wl, capacityMap, schedule, rng, a,
                    remaining, goodDays, tinyDays, pickedWeeks, days, i, calls,
                    firstSchedule, calcVars, configured, logged, response, submitVars >>

\* tempoClient.getWorklogs returns: existingWorklogs are the worklogs of the
\* assigned issues, and distributeWorklogs is called (lines 246-251, 256).
FetchWorklogs ==
    /\ rpc = "start"
    /\ configured
    /\ existingWorklogs' = logged
    /\ rpc' = "distribute"
    /\ pc' = "build"
    /\ UNCHANGED << assignments, from, to, seed, wl, capacityMap, schedule, rng, a,
                    remaining, goodDays, tinyDays, pickedWeeks, days, i, calls,
                    firstSchedule, calcVars, configured, logged, fetchFailed, response,
                    submitVars >>

\* res.json({ schedule }) with the schedule distributeWorklogs returned
\* (lines 256-272).
Respond ==
    /\ rpc = "distribute"
    /\ pc = "done"
    /\ response' = [status |-> 200, schedule |-> schedule]
    /\ rpc' = "responded"
    /\ UNCHANGED << distVars, calcVars, configured, logged, fetchFailed, submitVars >>

NextRoute == RejectUnconfigured \/ FetchWorklogs \/ FetchFails \/ Distribute \/ Respond

\* One request to POST /distribute.
SpecRoute == InitRoute /\ [][NextRoute]_vars

(***************************************************************************)
(* POST /submit-worklog, from the test for the Tempo client to the         *)
(* response (budget-delta.ts, lines 293-345).  The body is valid.  A call  *)
(* of a client and what the handler does when it returns are one step; the *)
(* insert into worklog_audit succeeds.                                     *)
(***************************************************************************)
\* The bodies that SubmitWorklogBody accepts: issueId is a number or a
\* string, held with its type and its text; hours are >= 0.
SubmitBodies ==
    [accountId : Accounts,
     issueId : {[type |-> "number", text |-> "101"], [type |-> "string", text |-> "101"]},
     startDate : FromDays,
     hours : {0, HalfHour, DayCapacity}]

InitSubmit ==
    /\ NoCalculation
    /\ NoDistribution
    /\ rpc = "idle"
    /\ logged = << >>
    /\ fetchFailed = FALSE
    /\ response = NoResponse
    /\ configured \in BOOLEAN
    /\ jiraConfigured \in BOOLEAN
    /\ body \in SubmitBodies
    /\ spc = "start"
    /\ tempoOutcome = "none"
    /\ jiraOutcome = "none"
    /\ audit = << >>

\* The row insertWorklogAudit writes (db.ts, lines 179-194): issue_id is
\* String(issueId), and tempo_worklog_id and error_message are null (0 and
\* "") where the entry has none.
AuditRow(tempoWorklogId, status, errorMessage) ==
    [tempo_worklog_id |-> tempoWorklogId, account_id |-> body.accountId,
     issue_id |-> body.issueId.text, start_date |-> body.startDate,
     hours |-> body.hours, operation |-> "create", status |-> status,
     error_message |-> errorMessage]

\* if (!tempoClient) { res.status(401).json({ error: ... }); return; }
SubmitUnconfigured ==
    /\ spc = "start"
    /\ ~configured
    /\ response' = [status |-> 401, error |-> "Tempo credentials not configured"]
    /\ spc' = "responded"
    /\ UNCHANGED << distVars, calcVars, rpc, configured, logged, fetchFailed, body,
                    jiraConfigured, tempoOutcome, jiraOutcome, audit >>

\* tempoClient.createWorklog returns the worklog (lines 302-313).
TempoCreates ==
    /\ spc = "start"
    /\ configured
    /\ tempoOutcome' = "created"
    /\ \E tempoWorklogId \in {9001} :
          /\ audit' = Append(audit, AuditRow(tempoWorklogId, "success", ""))
          /\ response' = [status |-> 200, success |-> TRUE,
                          tempoWorklogId |-> tempoWorklogId, via |-> "tempo"]
    /\ spc' = "responded"
    /\ UNCHANGED << distVars, calcVars, rpc, configured, logged, fetchFailed, body,
                    jiraConfigured, jiraOutcome >>

\* tempoClient.createWorklog throws an error that is not a 403 of Tempo: the
\* row is written and the error thrown on (lines 315-326); the error handler
\* answers with the status of the error if it has one, 500 otherwise.
TempoFails ==
    /\ spc = "start"
    /\ configured
    /\ tempoOutcome' = "failed"
    /\ audit' = Append(audit, AuditRow(0, "error", "Tempo error"))
    /\ \E status \in {404, 500} :
          response' = [status |-> status, error |-> "Tempo error"]
    /\ spc' = "responded"
    /\ UNCHANGED << distVars, calcVars, rpc, configured, logged, fetchFailed, body,
                    jiraConfigured, jiraOutcome >>

\* tempoClient.createWorklog throws a 403 of Tempo (lines 315-336): without a
\* Jira client the request is answered 403, with one jiraClient.createWorklog
\* is called.
TempoForbidden ==
    /\ spc = "start"
    /\ configured
    /\ tempoOutcome' = "forbidden"
    /\ IF jiraConfigured
       THEN /\ spc' = "jira"
            /\ UNCHANGED response
       ELSE /\ response' = [status |-> 403,
                            error |-> "Tempo returned 403 and Jira credentials are not configured"]
            /\ spc' = "responded"
    /\ UNCHANGED << distVars, calcVars, rpc, configured, logged, fetchFailed, body,
                    jiraConfigured, jiraOutcome, audit >>

\* jiraClient.createWorklog returns (lines 335-338).
JiraCreates ==
    /\ spc = "jira"
    /\ jiraOutcome' = "created"
    /\ audit' = Append(audit, AuditRow(0, "success", "created via Jira fallback (Tempo 403)"))
    /\ response' = [status |-> 200, success |-> TRUE, via |-> "jira"]
    /\ spc' = "responded"
    /\ UNCHANGED << distVars, calcVars, rpc, configured, logged, fetchFailed, body,
                    jiraConfigured, tempoOutcome >>

\* jiraClient.createWorklog throws (lines 340-344).
JiraFails ==
    /\ spc = "jira"
    /\ jiraOutcome' = "failed"
    /\ audit' = Append(audit, AuditRow(0, "error", "Tempo 403; Jira fallback also failed"))
    /\ response' = [status |-> 502, error |-> "Tempo 403; Jira fallback also failed"]
    /\ spc' = "responded"
    /\ UNCHANGED << distVars, calcVars, rpc, configured, logged, fetchFailed, body,
                    jiraConfigured, tempoOutcome >>

NextSubmit ==
    SubmitUnconfigured \/ TempoCreates \/ TempoFails \/ TempoForbidden \/ JiraCreates
        \/ JiraFails

\* One request to POST /submit-worklog.
SpecSubmit == InitSubmit /\ [][NextSubmit]_vars

(***************************************************************************)
(* Properties of distributeWorklogs.                                       *)
(***************************************************************************)
\* The hours of the existing worklogs of an account on a day.
ExistingHoursOn(accountId, d) ==
    SumSeq([k \in 1 .. Len(existingWorklogs) |->
              IF existingWorklogs[k].accountId = accountId
                 /\ existingWorklogs[k].startDate = d
              THEN HoursOfSeconds(existingWorklogs[k].timeSpentSeconds) ELSE 0])

\* The hours of the non-overflow entries of an account on a day.
PlacedHoursOn(accountId, d) ==
    SumSeq([k \in 1 .. Len(schedule) |->
              IF schedule[k].accountId = accountId /\ schedule[k].date = d
                 /\ ~schedule[k].overflow
              THEN schedule[k].hours ELSE 0])

\* The entries of the k-th assignment (its issueId is its own).
EntriesOf(k) ==
    {n \in 1 .. Len(schedule) : schedule[n].issueId = assignments[k].issueId}

\* C1 (capacity respect): on every day on which an account has a non-overflow
\* entry, the hours of its existing worklogs plus the hours of its non-overflow
\* entries are at most 8 h.
C1_CapacityRespect ==
    \A n \in 1 .. Len(schedule) :
        ~schedule[n].overflow =>
            ExistingHoursOn(schedule[n].accountId, schedule[n].date)
              + PlacedHoursOn(schedule[n].accountId, schedule[n].date) <= DayCapacity

\* C2 (overflow minimality): a step that pushes an overflow entry is taken only
\* when every working day of the range has a tracked capacity <= 0 for the
\* account of the entry.
C2_OverflowMinimality ==
    [][(/\ Len(schedule') = Len(schedule) + 1
        /\ schedule'[Len(schedule')].overflow)
       => \A k \in 1 .. Len(workingDays) :
             Cap(schedule'[Len(schedule')].accountId, workingDays[k]) <= 0]_vars

\* C3 (determinism): the second call with the same assignments, range, existing
\* worklogs and seed returns the schedule the first call returned.
C3_Determinism ==
    (calls = 2 /\ pc = "done") => schedule = firstSchedule

\* A second call has returned a schedule of at least three entries, one of
\* them a share drawn at random and one an overflow.
C3_Witness ==
    /\ calls = 2
    /\ pc = "done"
    /\ Len(schedule) >= 3
    /\ \E n \in 1 .. Len(schedule) : schedule[n].overflow
    /\ \E n \in 1 .. Len(schedule) : ~schedule[n].overflow

\* C4 as claimed: in the returned schedule every assignment with totalHours > 0
\* has at least one entry and every assignment with totalHours <= 0 has none,
\* whatever the range.
C4_EveryAssignmentScheduled ==
    pc = "done" =>
        \A k \in 1 .. Len(assignments) :
            IF assignments[k].totalHours > 0
            THEN EntriesOf(k) # {}
            ELSE EntriesOf(k) = {}

\* C4 as amended: the same when the range has a working day; when it has
\* none, no assignment has an entry.
C4_ScheduledInWorkingRange ==
    pc = "done" =>
        \A k \in 1 .. Len(assignments) :
            IF assignments[k].totalHours > 0 /\ Len(workingDays) > 0
            THEN EntriesOf(k) # {}
            ELSE EntriesOf(k) = {}

\* A call has returned in which an assignment with totalHours > 0 found no
\* capacity at all and has an overflow entry only.
C4_Witness ==
    /\ pc = "done"
    /\ \E k \in 1 .. Len(assignments) :
          /\ assignments[k].totalHours > 0
          /\ EntriesOf(k) # {}
          /\ \A n \in EntriesOf(k) : schedule[n].overflow

\* C5 (weekday-only scheduling): every entry, overflow or not, is dated on a
\* Monday-to-Friday day of [from, to].
C5_WeekdayOnly ==
    \A n \in 1 .. Len(schedule) :
        /\ getDay(schedule[n].date) \in 1 .. 5
        /\ from <= schedule[n].date
        /\ schedule[n].date <= to

\* A call over a range that holds a weekend has returned an overflow entry and
\* another entry.
C5_Witness ==
    /\ pc = "done"
    /\ \E d \in from .. to : getDay(d) \in {0, 6}
    /\ \E n \in 1 .. Len(schedule) : schedule[n].overflow
    /\ \E n \in 1 .. Len(schedule) : ~schedule[n].overflow

\* C6 (half-hour closure, distributor): the hours of every entry are a
\* multiple of 0.5 h.
C6_HalfHourEntries ==
    \A n \in 1 .. Len(schedule) : schedule[n].hours % HalfHour = 0

\* C11 (skipping): every entry of the schedule has hours > 0, and the step
\* taken for an assignment with totalHours <= 0 leaves the schedule and the
\* capacity map as they were and moves on to the next assignment.
C11_SkippedEntirely ==
    [][/\ \A n \in 1 .. Len(schedule') : schedule'[n].hours > 0
       /\ (pc = "assign" /\ a <= Len(assignments) /\ Assignment.totalHours <= 0)
             => /\ schedule' = schedule
                /\ capacityMap' = capacityMap
                /\ a' = a + 1
                /\ pc' = "assign"]_vars

\* A call has returned whose first assignment, of negative totalHours, has no
\* entry and whose second assignment has entries.
C11_Witness ==
    /\ pc = "done"
    /\ Len(assignments) = 2
    /\ assignments[1].totalHours < 0
    /\ EntriesOf(1) = {}
    /\ EntriesOf(2) # {}

\* C12 (immediate overflow): the step taken for an assignment with
\* totalHours > 0, in a range with a working day, when every working day has
\* capacity 0 for its account, pushes exactly one entry (overflow, on the first
\* working day, of totalHours hours) and moves on to the next assignment.
C12_ImmediateOverflow ==
    [][(/\ pc = "assign"
        /\ a <= Len(assignments)
        /\ Assignment.totalHours > 0
        /\ Len(workingDays) > 0
        /\ \A k \in 1 .. Len(workingDays) : Cap(Assignment.accountId, workingDays[k]) = 0)
       => /\ schedule' = Append(schedule, Entry(Assignment.accountId, Assignment.issueId,
                                                workingDays[1], Assignment.totalHours, TRUE))
          /\ a' = a + 1
          /\ pc' = "assign"]_vars

\* In a range of two working days or more, an assignment that found capacity 0
\* on every one of them has just been given its single overflow entry.
C12_Witness ==
    /\ pc = "assign"
    /\ a > 1
    /\ Len(workingDays) >= 2
    /\ \A k \in 1 .. Len(workingDays) : Cap(assignments[a - 1].accountId, workingDays[k]) = 0
    /\ Len(schedule) > 0
    /\ schedule[Len(schedule)] = Entry(assignments[a - 1].accountId, assignments[a - 1].issueId,
                                       workingDays[1], assignments[a - 1].totalHours, TRUE)
    /\ \A n \in EntriesOf(a - 1) : n = Len(schedule)

\* C13 (empty range): when [from, to] holds no working day the schedule is
\* empty in every state of the call, and the call goes on until it returns.
C13_NoBusinessDay ==
    Len(workingDays) = 0 =>
        /\ schedule = << >>
        /\ pc = "done" \/ ENABLED Distribute

\* A call over a weekend only, with existing worklogs and two assignments of
\* totalHours > 0, has returned.
C13_Witness ==
    /\ pc = "done"
    /\ Len(workingDays) = 0
    /\ Len(existingWorklogs) > 0
    /\ Len(assignments) = 2
    /\ \A k \in 1 .. 2 : assignments[k].totalHours > 0

\* C14 (capacity non-negative): every entry of the capacity map is >= 0, in
\* every state of the call.
C14_CapacityNonNegative ==
    \A key \in DOMAIN capacityMap : capacityMap[key] >= 0

C16_OneEntryPerKey ==
    \A n, m \in 1 .. Len(schedule) :
        (/\ schedule[n].accountId = schedule[m].accountId
         /\ schedule[n].issueId = schedule[m].issueId
         /\ schedule[n].date = schedule[m].date) => n = m

\* The state right after the weeks were chosen for an assignment.
WeeksChosen == pc = "step5" /\ i = 1

\* ceil(totalHours / largest weekly good capacity), at least 1, for the
\* assignment whose weeks were chosen.
ChosenMinWeeks ==
    LET gw == GoodWeeksOf(goodDays)
        weekCaps == [k \in 1 .. Len(gw) |->
                        GoodCapOfWeek(Assignment.accountId, goodDays, gw[k])]
    IN Max(1, MathCeil(Assignment.totalHours, MaxOf(weekCaps)))

\* C21 as stated (week selection bounds): for an assignment with a good day
\* the number of selected weeks is at least min(minWeeks, number of good
\* weeks) and at most 3.
C21_WeekBounds ==
    WeeksChosen =>
        /\ Cardinality(pickedWeeks) >= Min(ChosenMinWeeks, Len(GoodWeeksOf(goodDays)))
        /\ Cardinality(pickedWeeks) <= WeekLimit

\* C21 (week selection bounds), as the code has it: the number of selected
\* weeks is at least min(minWeeks, number of good weeks), at most the number
\* of good weeks, and at most the larger of 3 and minWeeks; it is at most 3
\* whenever minWeeks is at most 3.
C21_WeekBoundsUpToMinWeeks ==
    WeeksChosen =>
        /\ Cardinality(pickedWeeks) >= Min(ChosenMinWeeks, Len(GoodWeeksOf(goodDays)))
        /\ Cardinality(pickedWeeks) <= Len(GoodWeeksOf(goodDays))
        /\ Cardinality(pickedWeeks) <= Max(WeekLimit, ChosenMinWeeks)
        /\ ChosenMinWeeks <= WeekLimit => Cardinality(pickedWeeks) <= WeekLimit

\* Weeks were chosen for 81 h among more than three good weeks: exactly three.
C21_Witness ==
    /\ WeeksChosen
    /\ Len(GoodWeeksOf(goodDays)) > WeekLimit
    /\ ChosenMinWeeks = WeekLimit
    /\ Cardinality(pickedWeeks) = WeekLimit

\* The hours of all entries of the k-th assignment, overflow included.
HoursOf(k) ==
    SumSeq([n \in 1 .. Len(schedule) |->
              IF schedule[n].issueId = assignments[k].issueId
              THEN schedule[n].hours ELSE 0])

\* The k-th assignment has a positive totalHours that is a multiple of 0.5 h.
AlignedAssignment(k) ==
    assignments[k].totalHours > 0 /\ assignments[k].totalHours % HalfHour = 0

\* C22 (hours conservation): when the range has a business day, the entries
\* of every finished assignment with a positive totalHours that is a multiple
\* of 0.5 h sum to exactly totalHours, overflow included; while such an
\* assignment is being placed, its entries and the hours still remaining sum
\* to totalHours.
C22_HoursConserved ==
    Len(workingDays) > 0 =>
        /\ \A k \in 1 .. Len(assignments) :
              (k < a /\ AlignedAssignment(k)) => HoursOf(k) = assignments[k].totalHours
        /\ (pc \in {"step5", "step6", "step7"} /\ AlignedAssignment(a)) =>
              HoursOf(a) + remaining = Assignment.totalHours

\* A call has returned in which a 9 h assignment was placed partly within
\* capacity and partly as overflow.
C22_Witness ==
    /\ pc = "done"
    /\ \E k \in 1 .. Len(assignments) :
          /\ AlignedAssignment(k)
          /\ HoursOf(k) = assignments[k].totalHours
          /\ \E n, m \in EntriesOf(k) : schedule[n].overflow /\ ~schedule[m].overflow

\* A step that pushes an entry, and the entry it pushes.
Emits == Len(schedule') = Len(schedule) + 1
Emitted == schedule'[Len(schedule')]

IsGoodDay(d) == \E k \in 1 .. Len(goodDays) : goodDays[k] = d
IsTinyDay(d) == \E k \in 1 .. Len(tinyDays) : tinyDays[k] = d
IsPickedDay(d) == IsGoodDay(d) /\ getWeekKey(d) \in pickedWeeks

\* The phase of an entry of the assignment in progress: 1 for a good day of
\* the selected weeks, 2 for a good day outside them, 3 for a tiny day, 4 for
\* overflow.
PhaseOf(e) ==
    IF e.overflow THEN 4
    ELSE IF IsPickedDay(e.date) THEN 1
    ELSE IF IsGoodDay(e.date) THEN 2
    ELSE IF IsTinyDay(e.date) THEN 3
    ELSE 0

\* The entry pushed comes after the earlier entries of its assignment in the
\* order of the phases, and after those of phase 1 in the order of the days.
EmittedInOrder ==
    /\ PhaseOf(Emitted) >= 1
    /\ \A n \in EntriesOf(a) :
          /\ PhaseOf(schedule[n]) <= PhaseOf(Emitted)
          /\ PhaseOf(Emitted) = 1 => schedule[n].date < Emitted.date
          /\ ~schedule[n].overflow

\* Every day of the loop that ends was visited and hours remain.
LoopExhausted == i > Len(days) /\ remaining > 0

\* C25 (fallback order): the entries of an assignment are pushed in the order
\* good days of the selected weeks (ascending), good days outside the
\* selected weeks, tiny days, overflow; the sweep of the good days outside the
\* selected weeks begins only when every selected day was visited and hours
\* remain, the sweep of the tiny days only when every good day was visited
\* and hours remain.
C25_FallbackOrder ==
    [][/\ (Emits /\ pc # "assign") =>
             /\ EmittedInOrder
             /\ PhaseOf(Emitted) = 1 <=> pc = "step5"
             /\ PhaseOf(Emitted) = 2 <=> pc = "step6"
             /\ PhaseOf(Emitted) = 3 <=> (pc = "step7" /\ ~Emitted.overflow)
       /\ (pc' = "step6" /\ pc # "step6") =>
             /\ pc = "step5"
             /\ days = PickedDaysOf(goodDays, pickedWeeks)
             /\ LoopExhausted
       /\ (pc' = "step7" /\ pc # "step7") =>
             \/ pc = "step6" /\ LoopExhausted
             \/ pc = "assign" /\ goodDays' = << >>]_vars

\* An assignment has an entry of each phase, the overflow entry pushed last.
C25_Witness ==
    /\ pc = "assign"
    /\ a = 2
    /\ \A p \in 1 .. 4 : \E n \in EntriesOf(1) : PhaseOf(schedule[n]) = p
    /\ schedule[Len(schedule)].overflow

\* A day of step 5 that is not the last selected day is visited while more
\* than 1 h of the assignment remains.
VisitsEarlyPickedDay == LoopOver("step5") /\ i < Len(days) /\ remaining > OneHour

\* The first half of C26: such a visit pushes an entry of at least 1 h and at
\* most the hours that remain.
OneHourFloorStep ==
    VisitsEarlyPickedDay =>
        /\ Emits
        /\ IsGoodDay(Emitted.date)
        /\ Emitted.hours >= OneHour
        /\ Emitted.hours <= remaining

OneHourFloor == [][OneHourFloorStep]_vars

\* The second half of C26: an entry of less than 1 h on a good day places the
\* last 0.5 h of the assignment.
ShortEntryIsFinalStep ==
    (/\ Emits
     /\ pc # "assign"
     /\ ~Emitted.overflow
     /\ IsGoodDay(Emitted.date)
     /\ Emitted.hours < OneHour)
        => (Emitted.hours = HalfHour /\ remaining = HalfHour /\ remaining' = 0)

\* C26 (one-hour floor): in step 5, on a day that is not the last selected day
\* and while more than 1 h remains, the entry pushed has at least 1 h and at
\* most the hours that remain; a non-overflow entry of less than 1 h on a good
\* day places the last 0.5 h of the assignment.
C26_OneHourFloor == [][OneHourFloorStep /\ ShortEntryIsFinalStep]_vars

\* The second half of C26 for an assignment whose totalHours are a multiple
\* of 0.5 h.
ShortEntryIsFinalWhenAligned ==
    [][(a <= Len(assignments) /\ AlignedAssignment(a)) => ShortEntryIsFinalStep]_vars

\* The capacity map after the step is the map before it with the tracked
\* capacity of (accountId, date) lowered by hours, and nothing else changed.
LoweredBy(accountId, date, hours) ==
    /\ DOMAIN capacityMap' = (DOMAIN capacityMap) \cup {<< accountId, date >>}
    /\ capacityMap'[<< accountId, date >>] = Cap(accountId, date) - hours
    /\ \A k \in (DOMAIN capacityMap) \ {<< accountId, date >>} :
          capacityMap'[k] = capacityMap[k]

\* C27 (capacity bookkeeping): once the map is built, a step that pushes a
\* non-overflow entry of h hours lowers the tracked capacity of its account
\* and date by h and changes no other entry; every other step, the push of an
\* overflow entry and the passage to the next assignment among them, leaves
\* the map as it is.
C27_CapacityBookkeeping ==
    [][pc # "build" =>
          IF Emits /\ ~Emitted.overflow
          THEN LoweredBy(Emitted.accountId, Emitted.date, Emitted.hours)
          ELSE capacityMap' = capacityMap]_vars

\* The second assignment has an entry on a day on which the first one, of the
\* same account, has one, and the tracked capacity of the day is what both
\* have left of it; the map has an entry under another key as well.
C27_Witness ==
    /\ a = 2
    /\ pc \in {"step5", "step6", "step7"}
    /\ \E m \in EntriesOf(1), n \in EntriesOf(2) :
          /\ ~schedule[m].overflow
          /\ ~schedule[n].overflow
          /\ schedule[m].accountId = schedule[n].accountId
          /\ schedule[m].date = schedule[n].date
          /\ Cap(schedule[n].accountId, schedule[n].date)
                = DayCapacity - ExistingHoursOn(schedule[n].accountId, schedule[n].date)
                    - PlacedHoursOn(schedule[n].accountId, schedule[n].date)
          /\ \E k \in DOMAIN capacityMap : k # << schedule[n].accountId, schedule[n].date >>

\* The hours of the assignment in progress that no entry has placed.
Unplaced == Assignment.totalHours - HoursOf(a)

IsWorkingDay(d) == \E k \in 1 .. Len(workingDays) : workingDays[k] = d

\* A step pushes an overflow entry: it is for the assignment in progress, the
\* first overflow entry of it, and the assignment ends with the step.
OneOverflowAndLast ==
    /\ Emitted.issueId = Assignment.issueId
    /\ \A n \in EntriesOf(a) : ~schedule[n].overflow
    /\ a' = a + 1

\* The date of an overflow entry pushed by step 8: a working day of tracked
\* capacity >= 0 if there is one, else the first working day.
OverflowDateAsClaimed ==
    IF \E k \in 1 .. Len(workingDays) : Cap(Emitted.accountId, workingDays[k]) >= 0
    THEN IsWorkingDay(Emitted.date) /\ Cap(Emitted.accountId, Emitted.date) >= 0
    ELSE Emitted.date = FirstWorkingDay

\* C28 as claimed: at most one overflow entry per assignment; the one pushed
\* by step 8 is the last entry of its assignment, its hours are the hours not
\* placed, and its date is a working day of tracked capacity >= 0 if there is
\* one, else the first working day.
C28_OverflowEntry ==
    [][(Emits /\ Emitted.overflow) =>
          /\ OneOverflowAndLast
          /\ pc # "assign" =>
                /\ Emitted.hours = Unplaced
                /\ OverflowDateAsClaimed]_vars

\* C28 as amended: the same, the hours of the entry being the hours not
\* placed as the loop tracks them, rounded to 0.01 h after each commit: they
\* differ from the hours not placed by at most 0.005 h, and not at all when
\* totalHours is a multiple of 0.01 h.
C28_OverflowOfTrackedRemainder ==
    [][(Emits /\ Emitted.overflow) =>
          /\ OneOverflowAndLast
          /\ pc # "assign" =>
                /\ Emitted.hours = remaining
                /\ Abs(Emitted.hours - Unplaced) <= 5
                /\ Assignment.totalHours % 10 = 0 => Emitted.hours = Unplaced
                /\ OverflowDateAsClaimed]_vars

\* Step 8 has pushed the overflow entry of an assignment after other entries
\* of it, on a day of tracked capacity >= 0 while another day has a tracked
\* capacity below 0.
C28_Witness ==
    /\ pc = "assign"
    /\ a >= 2
    /\ Len(schedule) >= 2
    /\ LET last == schedule[Len(schedule)]
       IN /\ last.overflow
          /\ last.issueId = assignments[a - 1].issueId
          /\ \E n \in EntriesOf(a - 1) : ~schedule[n].overflow
          /\ Cap(last.accountId, last.date) >= 0
          /\ \E k \in 1 .. Len(workingDays) : Cap(last.accountId, workingDays[k]) < 0

\* The hours of every existing worklog and the totalHours of every assignment
\* are multiples of 0.5 h.
AlignedInput ==
    /\ \A k \in 1 .. Len(existingWorklogs) :
          HoursOfSeconds(existingWorklogs[k].timeSpentSeconds) % HalfHour = 0
    /\ \A k \in 1 .. Len(assignments) : assignments[k].totalHours % HalfHour = 0

\* C29 (capacity safety for aligned input): when the hours of every existing
\* worklog and of every assignment are multiples of 0.5 h, every tracked
\* capacity is >= 0 in every state of the call, and the non-overflow hours on
\* an account and day are at most max(0, 8 h - existing hours).
C29_AlignedCapacitySafety ==
    AlignedInput =>
        /\ \A key \in DOMAIN capacityMap : capacityMap[key] >= 0
        /\ \A acc \in Accounts : \A k \in 1 .. Len(workingDays) :
              PlacedHoursOn(acc, workingDays[k])
                 <= Max(0, DayCapacity - ExistingHoursOn(acc, workingDays[k]))

\* With aligned input, two assignments of one account have used up a day that
\* had existing worklogs, and the call has gone on to push an overflow entry.
C29_Witness ==
    /\ AlignedInput
    /\ pc = "done"
    /\ Len(assignments) = 2
    /\ \E n \in 1 .. Len(schedule) : schedule[n].overflow
    /\ \E m \in EntriesOf(1), n \in EntriesOf(2) :
          /\ ~schedule[m].overflow
          /\ ~schedule[n].overflow
          /\ schedule[m].accountId = schedule[n].accountId
          /\ schedule[m].date = schedule[n].date
          /\ ExistingHoursOn(schedule[n].accountId, schedule[n].date) > 0
          /\ Cap(schedule[n].accountId, schedule[n].date) = 0

(***************************************************************************)
(* Properties of calculateHours.                                           *)
(***************************************************************************)
\* C7 (half-hour closure, allocator): hoursPerMember and totalHours of every
\* role are multiples of 0.5 h, after the allocation, after every adjustment
\* and in the result.
C7_HalfHourRoles ==
    /\ \A k \in 1 .. Len(roleOutputs) :
          /\ roleOutputs[k].hoursPerMember % HalfHour = 0
          /\ roleOutputs[k].totalHours % HalfHour = 0
    /\ hc = "done" =>
          \A k \in 1 .. Len(result.roles) :
              /\ result.roles[k].hoursPerMember % HalfHour = 0
              /\ result.roles[k].totalHours % HalfHour = 0

\* A result was returned after an adjustment, with a role of more than one
\* member that has hours.
C7_Witness ==
    /\ hc = "done"
    /\ adjustments >= 1
    /\ \E k \in 1 .. Len(result.roles) :
          /\ result.roles[k].memberCount > 1
          /\ result.roles[k].hoursPerMember > 0

\* C8 (non-negativity): every role of the result has hoursPerMember >= 0.
C8_NonNegativeHours ==
    hc = "done" =>
        \A k \in 1 .. Len(result.roles) : result.roles[k].hoursPerMember >= 0

\* The error |achieved - target| of the rounded allocation and of the result.
ErrorBefore == Abs(roundedDelta - deltaRevenue)
ErrorAfter == Abs(result.achievedRevenue - targetRevenue)

\* The revenue of one half-hour step of a role.
StepRevenue(role) == HalfHour * role.memberCount * role.billingRate

\* The error after reconciliation is less than before, or the error before
\* was within one half-hour step of a role.
Converged ==
    \/ ErrorAfter < ErrorBefore
    \/ \E k \in 1 .. Len(roles) : ErrorBefore <= StepRevenue(roles[k])

\* C9 as claimed: convergence for every role list with a role of
\* billingRate > 0.
C9_RevenueConvergence ==
    (hc = "done" /\ \E k \in 1 .. Len(roles) : roles[k].billingRate > 0)
        => Converged

\* C9 as amended: convergence for every role list with a role of
\* billingRate > 0 and memberCount > 0, when targetRevenue >= currentRevenue.
C9_ConvergenceOfPayingRoles ==
    (/\ hc = "done"
     /\ deltaRevenue >= 0
     /\ \E k \in 1 .. Len(roles) : roles[k].billingRate > 0 /\ roles[k].memberCount > 0)
        => Converged

\* A result was returned for two paying roles whose rounded allocation missed
\* the target by more than either role's half-hour step, and reconciliation
\* reduced the error.
C9_Witness ==
    /\ hc = "done"
    /\ deltaRevenue > 0
    /\ adjustments >= 1
    /\ ErrorAfter < ErrorBefore
    /\ \A k \in 1 .. Len(roles) : ErrorBefore > StepRevenue(roles[k])
    /\ \E k \in 1 .. Len(roles) : roles[k].billingRate > 0 /\ roles[k].memberCount > 0

\* C10 (result consistency): in the result totalHours = hoursPerMember x
\* memberCount and revenueContribution = totalHours x billingRate for every
\* role, totalDeltaRevenue is the sum of the contributions, and
\* achievedRevenue = currentRevenue + totalDeltaRevenue.
C10_ResultConsistent ==
    hc = "done" =>
        /\ \A k \in 1 .. Len(result.roles) :
              /\ result.roles[k].totalHours
                    = result.roles[k].hoursPerMember * result.roles[k].memberCount
              /\ result.roles[k].revenueContribution
                    = result.roles[k].totalHours * result.roles[k].billingRate
        /\ result.totalDeltaRevenue = SumContributions(result.roles)
        /\ result.achievedRevenue = currentRevenue + result.totalDeltaRevenue

\* A result was returned in which reconciliation changed a role of more than
\* one member.
C10_Witness ==
    /\ hc = "done"
    /\ adjustments >= 1
    /\ \E k \in 1 .. Len(result.roles) :
          /\ result.roles[k].memberCount > 1
          /\ result.roles[k].hoursPerMember
                # AllocateRole(roles[k], TotalWeight(roles), deltaRevenue).hoursPerMember

\* A role that can earn nothing: billingRate 0, memberCount 0, or a role list
\* of total weight 0.
Degenerate(role) ==
    role.billingRate = 0 \/ role.memberCount = 0 \/ TotalWeight(roles) = 0

ZeroOutput(out) ==
    out.hoursPerMember = 0 /\ out.totalHours = 0 /\ out.revenueContribution = 0

\* C17 (degenerate roles): after the allocation, after every adjustment and in
\* the result, every degenerate role has hoursPerMember, totalHours and
\* revenueContribution 0; and the call goes on until it returns.
C17_DegenerateRoles ==
    /\ hc \in {"reconcile", "done"} =>
          \A k \in 1 .. Len(roleOutputs) : Degenerate(roles[k]) => ZeroOutput(roleOutputs[k])
    /\ hc = "done" =>
          \A k \in 1 .. Len(result.roles) : Degenerate(roles[k]) => ZeroOutput(result.roles[k])
    /\ hc \in {"start", "reconcile"} => ENABLED NextCalc

\* A result was returned after an adjustment for a paying role listed with a
\* role of no members and a positive rate.
C17_Witness ==
    /\ hc = "done"
    /\ adjustments >= 1
    /\ \E k \in 1 .. Len(roles) : roles[k].memberCount = 0 /\ roles[k].billingRate > 0
    /\ \E k \in 1 .. Len(roles) : result.roles[k].hoursPerMember > 0

\* C18 (empty role list): with no role the result has no role,
\* totalDeltaRevenue = 0 and achievedRevenue = currentRevenue, and no
\* adjustment was applied.
C18_EmptyRoles ==
    (hc = "done" /\ roles = << >>) =>
        /\ result.roles = << >>
        /\ result.totalDeltaRevenue = 0
        /\ result.achievedRevenue = currentRevenue
        /\ adjustments = 0

\* A result was returned for no role, a target above 0 and a current revenue
\* above the target.
C18_Witness ==
    /\ hc = "done"
    /\ roles = << >>
    /\ targetRevenue > 0
    /\ currentRevenue > targetRevenue

\* The single role of the list can take the delta exactly: billingRate > 0,
\* memberCount > 0, delta >= 0 a multiple of 0.5 h x memberCount x billingRate.
ExactSingleRole ==
    /\ Len(roles) = 1
    /\ roles[1].billingRate > 0
    /\ roles[1].memberCount > 0
    /\ deltaRevenue >= 0
    /\ deltaRevenue % StepRevenue(roles[1]) = 0

\* C19 (exact allocation): for such a role hoursPerMember =
\* delta / (billingRate x memberCount), achievedRevenue = targetRevenue, and no
\* adjustment was applied.
C19_ExactAllocation ==
    (hc = "done" /\ ExactSingleRole) =>
        /\ result.roles[1].hoursPerMember * roles[1].memberCount * roles[1].billingRate
              = deltaRevenue
        /\ result.achievedRevenue = targetRevenue
        /\ adjustments = 0

\* The result for a delta of 2000 and one role of rate 100 with 2 members:
\* hoursPerMember 10, totalHours 20, revenueContribution 2000.
C19_Witness ==
    /\ hc = "done"
    /\ ExactSingleRole
    /\ deltaRevenue = 2000 * 1000
    /\ roles[1].billingRate = 100
    /\ roles[1].memberCount = 2
    /\ result.roles[1].hoursPerMember = 10 * OneHour
    /\ result.roles[1].totalHours = 20 * OneHour
    /\ result.roles[1].revenueContribution = 2000 * 1000

\* Over the reals every applied adjustment strictly decreases
\* |achievedDelta - deltaRevenue|, and every call comes to return its result.
TerminatesOverReals ==
    /\ [][(hc = "reconcile" /\ adjustments' = adjustments + 1) =>
             Abs(achievedDelta' - deltaRevenue) < Abs(achievedDelta - deltaRevenue)]_vars
    /\ <>(hc = "done")

\* A pass of the reconciliation loop over doubles has applied an adjustment.
AdjustmentApplied == hc = "reconcile" /\ roleOutputs' # roleOutputs

\* C23 (termination of the reconciliation loop): every applied adjustment
\* strictly decreases |achievedDelta - deltaRevenue|, and every call of
\* calculateHours comes to return its result.
C23_LoopTerminates ==
    /\ [][AdjustmentApplied =>
             DLess(DAbs(DSub(achievedDelta', DDeltaRevenue)),
                   DAbs(DSub(achievedDelta, DDeltaRevenue)))]_vars
    /\ <>(hc = "done")

\* The second half alone: every call of calculateHours comes to return
\* its result.
LoopReturns == <>(hc = "done")

\* Role k of the result may be changed by adj half hours: its billingRate is
\* more than 0 and its hoursPerMember stay 0 or more.
MayChange(k, adj) ==
    /\ DLess(DZero, result.roles[k].billingRate)
    /\ ~DLess(DAdd(result.roles[k].hoursPerMember, DMul(DOf(adj), DHalf)), DZero)

\* |achievedRevenue - targetRevenue| of the result
ErrorOfResult == DAbs(DSub(result.achievedRevenue, targetRevenue))

\* |achievedRevenue - targetRevenue| of the result with hoursPerMember of role
\* k alone changed by adj half hours
ErrorOfChange(k, adj) ==
    The({DAbs(DSub(DAdd(currentRevenue, DSumContributions(changed)), targetRevenue)) :
            changed \in {[result.roles EXCEPT ![k] = DAdjusted(result.roles[k], adj)]}})

\* The error of the same change as a pass of the loop computes it (lines
\* 84-86): |achievedDelta - revenueContribution + newContrib - deltaRevenue|
ErrorOfTry(k, adj) ==
    The({DAbs(DSub(DAdd(DSub(result.totalDeltaRevenue, role.revenueContribution),
                        DAdjusted(role, adj).revenueContribution),
                   DDeltaRevenue)) :
            role \in {result.roles[k]}})

\* C24 as claimed (local optimality at return): in the result no change of
\* one role's hoursPerMember by -0.5 or +0.5, for a role with billingRate > 0
\* and hours that stay >= 0, strictly reduces |achievedRevenue - targetRevenue|.
C24_LocallyOptimal ==
    hc = "done" =>
        \A k \in 1 .. Len(result.roles), adj \in {0 - 1, 1} :
            MayChange(k, adj) => ~DLess(ErrorOfChange(k, adj), ErrorOfResult)

\* C24 as amended: in the result no such change has an error, as the loop
\* computes it from achievedDelta, strictly below |achievedDelta - deltaRevenue|.
C24_NoImprovingTry ==
    hc = "done" =>
        \A k \in 1 .. Len(result.roles), adj \in {0 - 1, 1} :
            MayChange(k, adj) =>
                ~DLess(ErrorOfTry(k, adj),
                       DAbs(DSub(result.totalDeltaRevenue, DDeltaRevenue)))

\* A result was returned after an adjustment by +0.5, with a role that may
\* be changed either way.
C24_Witness ==
    /\ hc = "done"
    /\ \E k \in 1 .. Len(result.roles) :
          /\ MayChange(k, 0 - 1)
          /\ MayChange(k, 1)
          /\ DLess(DAllocateRole(roles[k], DTotalWeight(roles), DDeltaRevenue).hoursPerMember,
                   result.roles[k].hoursPerMember)

\* Over the reals the result is locally optimal as claimed.
LocallyOptimalOverReals ==
    hc = "done" =>
        \A k \in 1 .. Len(result.roles) : \A adj \in {0 - HalfHour, HalfHour} :
            (result.roles[k].billingRate > 0 /\ result.roles[k].hoursPerMember + adj >= 0)
                => Abs(currentRevenue
                         + SumContributions([result.roles EXCEPT
                                               ![k] = Adjusted(result.roles[k], adj)])
                         - targetRevenue)
                      >= Abs(result.achievedRevenue - targetRevenue)

(***************************************************************************)
(* Properties of POST /distribute.                                         *)
(***************************************************************************)
\* C20 (fetch failure surfaced): a request during which getWorklogs failed is
\* answered with an error status, never with a schedule.
C20_FetchFailureSurfaced ==
    (rpc = "responded" /\ fetchFailed) => response.status >= 400

(***************************************************************************)
(* Properties of POST /submit-worklog.                                     *)
(***************************************************************************)
\* A worklog was created, by Tempo or by Jira.
WorklogCreated == tempoOutcome = "created" \/ jiraOutcome = "created"

\* C30 (audit completeness): a request that reached tempoClient.createWorklog
\* and was answered has written exactly one row of worklog_audit, with status
\* "success" if a worklog was created and "error" if none was; and
\* jiraClient.createWorklog is called only after a 403 of Tempo.
C30_AuditComplete ==
    /\ (spc = "responded" /\ tempoOutcome # "none") =>
          /\ Len(audit) = 1
          /\ audit[1].status = IF WorklogCreated THEN "success" ELSE "error"
    /\ jiraOutcome # "none" => tempoOutcome = "forbidden"


=============================================================================
